---- MODULE Spec2Model ----
(***************************************************************************)
(* Model of the WebsiteEvaluator evaluation pipeline:                      *)
(*   server/validation.js   validateRequest, sanitizeInput                 *)
(*   server/middleware.js   POST /api/evaluate                             *)
(*   server/llmService.js   WatsonxService, evaluateWebsiteWithLLM,        *)
(*                          generateTextWithLLM, POST /evaluate            *)
(*   src/ui                 App, HomePage, Evaluator, BatchEvaluator,      *)
(*                          CriteriaSidebar over the stores of localStorage *)
(*                                                                         *)
(* JavaScript values are records of one shape, [t, s]: t is the type tag   *)
(* and s the characters of a string (empty for every other type).  The     *)
(* strings of a request are sequences of characters; a model text is a     *)
(* sequence of tokens.                                                     *)
(***************************************************************************)
EXTENDS Integers, Sequences, FiniteSets, TLC

VARIABLES
    pc,         \* position of the handler (or of the function under test)
    req,        \* the request body as received
    env,        \* process.env: [maxContent, maxSections], 0 = variable unset
    vres,       \* what validateRequest produced
    san1,       \* sanitizeInput(req)
    san2,       \* sanitizeInput(sanitizeInput(req))
    llmText,    \* a text of the model, as the LLM client returns it
    normB,      \* what the /evaluate response parsing makes of llmText
    normA,      \* what WatsonxService.parseLLMResponse makes of llmText
    endpoint,   \* the route that took the request: "evaluate", "apiEvaluate"
    configured, \* whether the Watsonx.ai credentials are in process.env
    abort,      \* the client's AbortController signal, and when it was given
    data,       \* the request data the evaluation loop works on
    idx,        \* number of the criterion being evaluated (0: none yet)
    attempt,    \* the loop variable of evaluateCriterionWithRetry
    lastError,  \* message of the last error caught for this criterion
    log,        \* outcome of every attempt made for this criterion so far
    fetches,    \* requests sent to the model endpoint for this criterion
    llmCalls,   \* calls of the LLM client made for this request
    delays,     \* the setTimeout waits of this request, in order
    results,    \* the results accumulated so far
    response,   \* the HTTP response sent, [status |-> 0] before that
    websites,   \* localStorage 'websites:v1': the stored websites
    homeWebsites, \* the websites state of the mounted HomePage
    storedCriteria, \* localStorage 'criteria:v1': the stored criteria
    ids,        \* number of ids generated so far
    now,        \* the clock that new Date() reads
    selectedWebsite, \* App: the website under evaluation, Null in the home view
    evaluator,  \* the run of Evaluator.handleEvaluate
    batch       \* BatchEvaluator: isRunning, batchProgress and the loop

valVars == <<vres, san1, san2>>
normVars == <<llmText, normB, normA>>
runVars == <<endpoint, configured, abort, data, idx, attempt, lastError, log, fetches,
             llmCalls, delays, results, response>>
clientVars == <<websites, homeWebsites, storedCriteria, ids, now, selectedWebsite, evaluator,
                batch>>
vars == <<pc, req, env, valVars, normVars, runVars, clientVars>>

(***************************************************************************)
(* Bounds of the model.                                                    *)
(***************************************************************************)
MaxSecs == 2        \* sections per request body
MaxCrit == 2        \* criteria per request body
MaxWebsites == 2    \* websites added to the store
MaxRuns == 2        \* evaluation runs (single or batch) started
MaxResults == 1     \* results in a response of the evaluation API
MaxGenerated == 2   \* criterion ids generated by the sidebar
MaxMembers == 3     \* members of a JSON object in a model text
MaxWords == 4       \* tokens of a model text that is no JSON object

(***************************************************************************)
(* JavaScript scalars.                                                     *)
(***************************************************************************)
Undef == [t |-> "undefined", s |-> <<>>]
Null == [t |-> "null", s |-> <<>>]
Num0 == [t |-> "number0", s |-> <<>>]
Num5 == [t |-> "number5", s |-> <<>>]
True == [t |-> "true", s |-> <<>>]
False == [t |-> "false", s |-> <<>>]
Str(chars) == [t |-> "string", s |-> chars]

Array(items) == [t |-> "array", s |-> items]

\* ToBoolean(v): undefined, null, 0, false and "" are falsy; an array is
\* truthy even when empty.
Truthy(v) ==
    \/ v.t \in {"number5", "true", "array"}
    \/ v.t = "string" /\ v.s # <<>>

\* typeof v === 'string'
IsString(v) == v.t = "string"

\* typeof v === 'boolean'
IsBoolean(v) == v.t \in {"true", "false"}

\* A property read v.p throws a TypeError exactly on undefined and null.
ReadThrows(v) == v.t \in {"undefined", "null"}

(***************************************************************************)
(* String.prototype.trim over the characters " ", "a", ":".                *)
(***************************************************************************)
RECURSIVE TrimStart(_)
TrimStart(s) ==
    IF s # <<>> /\ Head(s) = " " THEN TrimStart(Tail(s)) ELSE s

RECURSIVE TrimEnd(_)
TrimEnd(s) ==
    IF s # <<>> /\ s[Len(s)] = " " THEN TrimEnd(SubSeq(s, 1, Len(s) - 1)) ELSE s

\* A trim that strips one character from each end only.
TrimOnce(s) ==
    LET a == IF s # <<>> /\ Head(s) = " " THEN Tail(s) ELSE s
    IN  IF a # <<>> /\ a[Len(a)] = " " THEN SubSeq(a, 1, Len(a) - 1) ELSE a

Trim(s) == TrimEnd(TrimStart(s))

\* new URL(s) without a base: leading and trailing spaces are stripped, then
\* the text must start with a scheme (letters) followed by ":".
ValidURL(s) ==
    LET u == Trim(s)
    IN  \E i \in 2..Len(u) : u[i] = ":" /\ \A j \in 1..(i - 1) : u[j] = "a"

(***************************************************************************)
(* Request bodies.                                                         *)
(***************************************************************************)
Section(sel, title, content) ==
    [t |-> "object", selector |-> sel, title |-> title, content |-> content]
NullSection == [t |-> "null", selector |-> Undef, title |-> Undef, content |-> Undef]

Criterion(id, name, definition, selected) ==
    [t |-> "object", id |-> id, name |-> name, definition |-> definition,
     selected |-> selected]
NullCriterion ==
    [t |-> "null", id |-> Undef, name |-> Undef, definition |-> Undef,
     selected |-> Undef]

Arr(items) == [t |-> "array", items |-> items]
NoArr == [t |-> "undefined", items |-> <<>>]
StrArr == [t |-> "string", items |-> <<>>]

Body(url, sections, criteria) ==
    [t |-> "object", websiteUrl |-> url, selectedSections |-> sections,
     criteria |-> criteria]
NoBody ==
    [t |-> "undefined", websiteUrl |-> Undef, selectedSections |-> NoArr,
     criteria |-> NoArr]

(***************************************************************************)
(* validateRequest (server/validation.js).  An error message is a record:  *)
(* the property path it names, the array index it names (-1: none), the    *)
(* member field it names and the kind of complaint.                        *)
(***************************************************************************)
Err(path, index, field, kind) ==
    [path |-> path, index |-> index, field |-> field, kind |-> kind]

DefaultMaxSections == 10
DefaultMaxContentLength == 50000

\* parseInt(process.env.X) || dflt: an unset variable parses to NaN, and NaN
\* and 0 are falsy.
EnvOr(value, dflt) == IF value = 0 THEN dflt ELSE value

\* What a function call came to: a value, or a thrown TypeError.
Returned(errors) == [threw |-> FALSE, isValid |-> errors = <<>>, errors |-> errors]
Threw == [threw |-> TRUE, isValid |-> FALSE, errors |-> <<>>]

UrlErrors(url) ==
    IF ~Truthy(url) \/ ~IsString(url)
    THEN <<Err("websiteUrl", -1, "", "required")>>
    ELSE IF ~ValidURL(url.s)
         THEN <<Err("websiteUrl", -1, "", "invalid")>>
         ELSE <<>>

RequiredString(v, path, index, field) ==
    IF ~Truthy(v) \/ ~IsString(v)
    THEN <<Err(path, index, field, "required")>>
    ELSE <<>>

\* A forEach callback that numbers the sections from one in its length error.
SectionCheckOneBased(section, index, maxContentLength) ==
    IF section.t # "object"
    THEN [threw |-> FALSE,
          errors |-> <<Err("selectedSections", index, "", "object")>>]
    ELSE LET fields ==
                 RequiredString(section.selector, "selectedSections", index, "selector")
                 \o RequiredString(section.title, "selectedSections", index, "title")
                 \o RequiredString(section.content, "selectedSections", index, "content")
         IN  IF ReadThrows(section.content)
             THEN [threw |-> TRUE, errors |-> fields]
             ELSE [threw |-> FALSE,
                   errors |->
                       fields \o
                       (IF IsString(section.content)
                           /\ Len(section.content.s) > maxContentLength
                        THEN <<Err("selectedSections", index + 1, "content", "length")>>
                        ELSE <<>>)]

\* The forEach callback on one section: [threw, errors].  The length check
\* reads section.content.length whatever the check before it found.
SectionCheck(section, index, maxContentLength) ==
    IF section.t # "object"
    THEN [threw |-> FALSE,
          errors |-> <<Err("selectedSections", index, "", "object")>>]
    ELSE LET fields ==
                 RequiredString(section.selector, "selectedSections", index, "selector")
                 \o RequiredString(section.title, "selectedSections", index, "title")
                 \o RequiredString(section.content, "selectedSections", index, "content")
         IN  IF ReadThrows(section.content)
             THEN [threw |-> TRUE, errors |-> fields]
             ELSE [threw |-> FALSE,
                   errors |->
                       fields \o
                       (IF IsString(section.content)
                           /\ Len(section.content.s) > maxContentLength
                        THEN <<Err("selectedSections", index, "content", "length")>>
                        ELSE <<>>)]

\* selectedSections.forEach from item i on; a throw ends the loop.
RECURSIVE SectionsForEach(_, _, _)
SectionsForEach(items, i, maxContentLength) ==
    IF i > Len(items)
    THEN [threw |-> FALSE, errors |-> <<>>]
    ELSE LET one == SectionCheck(items[i], i - 1, maxContentLength)
         IN  IF one.threw
             THEN one
             ELSE LET rest == SectionsForEach(items, i + 1, maxContentLength)
                  IN  [threw |-> rest.threw, errors |-> one.errors \o rest.errors]

SectionsErrors(sections, e) ==
    IF sections.t # "array" \/ Len(sections.items) = 0
    THEN [threw |-> FALSE,
          errors |-> <<Err("selectedSections", -1, "", "required")>>]
    ELSE LET count ==
                 IF Len(sections.items) > EnvOr(e.maxSections, DefaultMaxSections)
                 THEN <<Err("selectedSections", -1, "", "count")>>
                 ELSE <<>>
             each == SectionsForEach(sections.items, 1,
                                     EnvOr(e.maxContent, DefaultMaxContentLength))
         IN  [threw |-> each.threw, errors |-> count \o each.errors]

CriterionCheck(criterion, index) ==
    IF criterion.t # "object"
    THEN <<Err("criteria", index, "", "object")>>
    ELSE RequiredString(criterion.id, "criteria", index, "id")
         \o RequiredString(criterion.name, "criteria", index, "name")
         \o (IF Truthy(criterion.definition) /\ ~IsString(criterion.definition)
             THEN <<Err("criteria", index, "definition", "type")>>
             ELSE <<>>)
         \o (IF criterion.selected.t # "undefined" /\ ~IsBoolean(criterion.selected)
             THEN <<Err("criteria", index, "selected", "type")>>
             ELSE <<>>)

RECURSIVE CriteriaForEach(_, _)
CriteriaForEach(items, i) ==
    IF i > Len(items)
    THEN <<>>
    ELSE CriterionCheck(items[i], i - 1) \o CriteriaForEach(items, i + 1)

CriteriaErrors(criteria) ==
    IF criteria.t # "array" \/ Len(criteria.items) = 0
    THEN <<Err("criteria", -1, "", "required")>>
    ELSE CriteriaForEach(criteria.items, 1)

\* The reduce over selectedSections: [threw, nan, n].  section.content of a
\* null section throws; a truthy content that is no string has no length, and
\* total + undefined is NaN from there on.
RECURSIVE TotalContentLength(_, _, _)
TotalContentLength(items, i, total) ==
    IF i > Len(items)
    THEN total
    ELSE IF items[i].t # "object"
         THEN [threw |-> TRUE, nan |-> FALSE, n |-> 0]
         ELSE LET c == items[i].content
                  next ==
                      IF ~Truthy(c) THEN total
                      ELSE IF IsString(c)
                           THEN [total EXCEPT !.n = @ + Len(c.s)]
                           ELSE [total EXCEPT !.nan = TRUE]
              IN  TotalContentLength(items, i + 1, next)

TotalErrors(sections, e) ==
    IF sections.t # "array"
    THEN [threw |-> FALSE, errors |-> <<>>]
    ELSE LET total ==
                 TotalContentLength(sections.items, 1,
                                    [threw |-> FALSE, nan |-> FALSE, n |-> 0])
         IN  IF total.threw
             THEN [threw |-> TRUE, errors |-> <<>>]
             ELSE [threw |-> FALSE,
                   errors |->
                       IF ~total.nan
                          /\ total.n > EnvOr(e.maxContent, DefaultMaxContentLength)
                       THEN <<Err("total", -1, "content", "length")>>
                       ELSE <<>>]

validateRequest(body, e) ==
    IF body.t # "object"
    THEN Returned(<<Err("body", -1, "", "required")>>)
    ELSE LET secs == SectionsErrors(body.selectedSections, e)
             total == TotalErrors(body.selectedSections, e)
         IN  IF secs.threw \/ total.threw
             THEN Threw
             ELSE Returned(UrlErrors(body.websiteUrl)
                           \o secs.errors
                           \o CriteriaErrors(body.criteria)
                           \o total.errors)

(***************************************************************************)
(* sanitizeInput (server/validation.js).                                   *)
(***************************************************************************)
\* v ? v.trim() : '' : a truthy value that is no string has no trim method.
TrimThrows(v) == Truthy(v) /\ ~IsString(v)
TrimOrEmpty(v) == IF Truthy(v) THEN Str(Trim(v.s)) ELSE Str(<<>>)

SanitizeSectionThrows(section) ==
    \/ section.t # "object"
    \/ TrimThrows(section.selector)
    \/ TrimThrows(section.title)
    \/ TrimThrows(section.content)

SanitizeSection(section) ==
    Section(TrimOrEmpty(section.selector), TrimOrEmpty(section.title),
            TrimOrEmpty(section.content))

SanitizeCriterionThrows(criterion) ==
    \/ criterion.t # "object"
    \/ TrimThrows(criterion.id)
    \/ TrimThrows(criterion.name)
    \/ TrimThrows(criterion.definition)

SanitizeCriterion(criterion) ==
    Criterion(TrimOrEmpty(criterion.id), TrimOrEmpty(criterion.name),
              TrimOrEmpty(criterion.definition),
              IF criterion.selected.t = "true" THEN True ELSE False)

SanitizeThrows(body) ==
    \/ TrimThrows(body.websiteUrl)
    \/ /\ body.selectedSections.t = "array"
       /\ \E i \in 1..Len(body.selectedSections.items) :
              SanitizeSectionThrows(body.selectedSections.items[i])
    \/ /\ body.criteria.t = "array"
       /\ \E i \in 1..Len(body.criteria.items) :
              SanitizeCriterionThrows(body.criteria.items[i])

ThrownBody ==
    [t |-> "thrown", websiteUrl |-> Undef, selectedSections |-> NoArr,
     criteria |-> NoArr]

\* sanitizeInput(body): the sanitized copy, or ThrownBody for a TypeError.
\* A call on the outcome of a call that threw never happens: it stays thrown.
sanitizeInput(body) ==
    IF body.t = "thrown" \/ SanitizeThrows(body)
    THEN ThrownBody
    ELSE [t |-> body.t,
          websiteUrl |->
              IF Truthy(body.websiteUrl)
              THEN Str(Trim(body.websiteUrl.s))
              ELSE body.websiteUrl,
          selectedSections |->
              IF body.selectedSections.t = "array"
              THEN Arr([i \in 1..Len(body.selectedSections.items) |->
                           SanitizeSection(body.selectedSections.items[i])])
              ELSE body.selectedSections,
          criteria |->
              IF body.criteria.t = "array"
              THEN Arr([i \in 1..Len(body.criteria.items) |->
                           SanitizeCriterion(body.criteria.items[i])])
              ELSE body.criteria]


(***************************************************************************)
(* Model texts.  A text is a sequence of tokens, each a string: a brace, a *)
(* code fence, one "name":value member of a JSON object, a JSON scalar, or *)
(* a word of prose.  A JSON string value is the sequence of its words.     *)
(***************************************************************************)
MemberTokens ==
    {"\"alignment\":\"HIGH\"", "\"alignment\":\"MEDIUM\"", "\"alignment\":\"LOW\"",
     "\"alignment\":\"low\"", "\"alignment\":\"EXCELLENT\"", "\"alignment\":\"\"",
     "\"alignment\":5",
     "\"reasoning\":\"x\"", "\"reasoning\":\"\"",
     "\"keyInsights\":[\"a\"]", "\"keyInsights\":[]",
     "\"keyFindings\":[\"f\"]"}

MemberName(tok) ==
    CASE tok \in {"\"alignment\":\"HIGH\"", "\"alignment\":\"MEDIUM\"",
                  "\"alignment\":\"LOW\"", "\"alignment\":\"low\"",
                  "\"alignment\":\"EXCELLENT\"", "\"alignment\":\"\"",
                  "\"alignment\":5"} -> "alignment"
      [] tok \in {"\"reasoning\":\"x\"", "\"reasoning\":\"\""} -> "reasoning"
      [] tok \in {"\"keyInsights\":[\"a\"]", "\"keyInsights\":[]"} -> "keyInsights"
      [] tok = "\"keyFindings\":[\"f\"]" -> "keyFindings"
      [] OTHER -> ""

MemberValue(tok) ==
    CASE tok = "\"alignment\":\"HIGH\"" -> Str(<<"HIGH">>)
      [] tok = "\"alignment\":\"MEDIUM\"" -> Str(<<"MEDIUM">>)
      [] tok = "\"alignment\":\"LOW\"" -> Str(<<"LOW">>)
      [] tok = "\"alignment\":\"low\"" -> Str(<<"low">>)
      [] tok = "\"alignment\":\"EXCELLENT\"" -> Str(<<"EXCELLENT">>)
      [] tok = "\"alignment\":\"\"" -> Str(<<>>)
      [] tok = "\"alignment\":5" -> Num5
      [] tok = "\"reasoning\":\"x\"" -> Str(<<"x">>)
      [] tok = "\"reasoning\":\"\"" -> Str(<<>>)
      [] tok = "\"keyInsights\":[\"a\"]" -> Array(<<"a">>)
      [] tok = "\"keyInsights\":[]" -> Array(<<>>)
      [] tok = "\"keyFindings\":[\"f\"]" -> Array(<<"f">>)
      [] OTHER -> Undef

ScalarTokens == {"null", "5"}

\* String.prototype.toUpperCase on the words of the model.
UpperWord(w) ==
    CASE w \in {"high", "HIGH"} -> "HIGH"
      [] w \in {"medium", "MEDIUM"} -> "MEDIUM"
      [] w \in {"low", "LOW"} -> "LOW"
      [] w = "lower" -> "LOWER"
      [] w = "alignment:" -> "ALIGNMENT:"
      [] w = "reasoning:" -> "REASONING:"
      [] OTHER -> w

ToUpperCase(s) == [i \in 1..Len(s) |-> UpperWord(s[i])]

\* What JSON.parse gives: an object with these members (undefined when the
\* text has none), or a scalar (t is then its type and every member read
\* gives undefined).
Parsed(t, alignment, reasoning, keyInsights, keyFindings) ==
    [t |-> t, alignment |-> alignment, reasoning |-> reasoning,
     keyInsights |-> keyInsights, keyFindings |-> keyFindings]

NotParsed == Parsed("undefined", Undef, Undef, Undef, Undef)

\* The value of member `name` in a sequence of member tokens: the last one
\* with that name wins.
RECURSIVE MemberOf(_, _)
MemberOf(members, name) ==
    IF members = <<>>
    THEN Undef
    ELSE IF MemberName(members[Len(members)]) = name
         THEN MemberValue(members[Len(members)])
         ELSE MemberOf(SubSeq(members, 1, Len(members) - 1), name)

\* JSON.parse(text): [ok, val]; ok = FALSE is a SyntaxError.
JSONParse(text) ==
    IF Len(text) = 1 /\ text[1] \in ScalarTokens
    THEN [ok |-> TRUE,
          val |-> Parsed(IF text[1] = "null" THEN "null" ELSE "number5",
                         Undef, Undef, Undef, Undef)]
    ELSE IF /\ Len(text) >= 2
            /\ text[1] = "{"
            /\ text[Len(text)] = "}"
            /\ \A i \in 2..(Len(text) - 1) : text[i] \in MemberTokens
         THEN LET members == SubSeq(text, 2, Len(text) - 1)
              IN  [ok |-> TRUE,
                   val |-> Parsed("object",
                                  MemberOf(members, "alignment"),
                                  MemberOf(members, "reasoning"),
                                  MemberOf(members, "keyInsights"),
                                  MemberOf(members, "keyFindings"))]
         ELSE [ok |-> FALSE, val |-> NotParsed]

\* indexOf and lastIndexOf, 1-based; 0 when the token does not occur.
IndexOf(text, tok) ==
    IF \E i \in 1..Len(text) : text[i] = tok
    THEN CHOOSE i \in 1..Len(text) :
             text[i] = tok /\ \A j \in 1..(i - 1) : text[j] # tok
    ELSE 0

LastIndexOf(text, tok) ==
    IF \E i \in 1..Len(text) : text[i] = tok
    THEN CHOOSE i \in 1..Len(text) :
             text[i] = tok /\ \A j \in (i + 1)..Len(text) : text[j] # tok
    ELSE 0

\* The code fences of markdown: three backquotes followed by json, and three
\* backquotes alone.
FenceJson == "<fence>json"
Fence == "<fence>"

\* replace(/<fence>json\s*/g, '').replace(/<fence>\s*/g, '')
RECURSIVE StripFences(_)
StripFences(text) ==
    IF text = <<>>
    THEN <<>>
    ELSE IF Head(text) \in {FenceJson, Fence}
         THEN StripFences(Tail(text))
         ELSE <<Head(text)>> \o StripFences(Tail(text))

(***************************************************************************)
(* The response parsing of evaluateCriterionWithRetry (POST /evaluate).    *)
(***************************************************************************)
\* The text handed to the second JSON.parse: fences removed, then cut to
\* start at the first "{" when that is not the first token, and to end at
\* the last "}" when that is neither the first nor the last token.
ExtractJsonText(llmResponse) ==
    LET noFences == StripFences(llmResponse)
        jsonStart == IndexOf(noFences, "{")
        fromStart ==
            IF jsonStart > 1
            THEN SubSeq(noFences, jsonStart, Len(noFences))
            ELSE noFences
        jsonEnd == LastIndexOf(fromStart, "}")
    IN  IF jsonEnd > 1 /\ jsonEnd < Len(fromStart)
        THEN SubSeq(fromStart, 1, jsonEnd)
        ELSE fromStart

FallbackInsights ==
    Array(<<"Content analyzed successfully", "LLM evaluation completed">>)

\* parsedResponse after the try/catch ladder.
ParsedResponse(llmResponse) ==
    LET direct == JSONParse(llmResponse)
        extracted == JSONParse(ExtractJsonText(llmResponse))
    IN  IF direct.ok
        THEN direct.val
        ELSE IF extracted.ok
             THEN extracted.val
             ELSE [Parsed("object", Str(<<"HIGH">>),
                          Str(StripFences(llmResponse)), FallbackInsights, Undef)
                   EXCEPT !.t = "fallback"]

\* v || dflt
OrElse(v, dflt) == IF Truthy(v) THEN v ELSE dflt

\* The three normalized members of a completed result; reading a member of a
\* parsed null throws a TypeError inside the attempt's try block.
NormalizeThrows(llmResponse) == ParsedResponse(llmResponse).t = "null"

\* A normalization that leaves keyInsights out of the result.
NormalizedWithoutInsights(llmResponse) ==
    LET parsedResponse == ParsedResponse(llmResponse)
    IN  [alignment |-> OrElse(parsedResponse.alignment, Str(<<"HIGH">>)),
         reasoning |->
             OrElse(parsedResponse.reasoning, Str(<<"LLM evaluation completed">>)),
         keyInsights |-> Array(<<>>)]

Normalized(llmResponse) ==
    LET parsedResponse == ParsedResponse(llmResponse)
    IN  [alignment |-> OrElse(parsedResponse.alignment, Str(<<"HIGH">>)),
         reasoning |->
             OrElse(parsedResponse.reasoning, Str(<<"LLM evaluation completed">>)),
         keyInsights |-> OrElse(parsedResponse.keyInsights, Array(<<>>))]

(***************************************************************************)
(* WatsonxService.parseLLMResponse and fallbackResponseParsing             *)
(* (POST /api/evaluate).                                                   *)
(***************************************************************************)
FallbackReasoningLength == 500

StartsAlignment(w) ==
    UpperWord(w) \in {"HIGH", "MEDIUM", "LOW", "LOWER"}

\* The group captured by /ALIGNMENT:\s*(HIGH|MEDIUM|LOW)/i, upper-cased.
AlignmentGroup(w) == IF UpperWord(w) = "LOWER" THEN "LOW" ELSE UpperWord(w)

IsSectionMarker(w) == w \in {"KEY_FINDINGS", "RECOMMENDATIONS"}

fallbackResponseParsing(responseText) ==
    LET n == Len(responseText)
        aHits == {i \in 1..(n - 1) :
                     /\ UpperWord(responseText[i]) = "ALIGNMENT:"
                     /\ StartsAlignment(responseText[i + 1])}
        aFirst == CHOOSE i \in aHits : \A j \in aHits : i <= j
        rHits == {i \in 1..n : UpperWord(responseText[i]) = "REASONING:"}
        rFirst == CHOOSE i \in rHits : \A j \in rHits : i <= j
        stops == {i \in 1..n : i > rFirst /\ IsSectionMarker(responseText[i])}
        rEnd == IF stops = {}
                THEN n
                ELSE (CHOOSE i \in stops : \A j \in stops : i <= j) - 1
        cut == IF n > FallbackReasoningLength THEN FallbackReasoningLength ELSE n
    IN  [alignment |->
             IF aHits = {}
             THEN Str(<<"MEDIUM">>)
             ELSE Str(<<AlignmentGroup(responseText[aFirst + 1])>>),
         reasoning |->
             IF rHits = {}
             THEN Str(SubSeq(responseText, 1, cut) \o <<"...">>)
             ELSE Str(SubSeq(responseText, rFirst + 1, rEnd)),
         keyFindings |-> Array(<<>>),
         recommendations |-> Array(<<>>)]

\* The match of /\{[\s\S]*\}/ : from the first "{" to the last "}".
JsonMatch(responseText) ==
    LET first == IndexOf(responseText, "{")
        last == LastIndexOf(responseText, "}")
    IN  IF first > 0 /\ last > first
        THEN SubSeq(responseText, first, last)
        ELSE <<>>

parseLLMResponse(responseText) ==
    LET jsonMatch == JsonMatch(responseText)
        parsed == JSONParse(jsonMatch)
    IN  IF \/ jsonMatch = <<>>
           \/ ~parsed.ok
           \/ ~Truthy(parsed.val.alignment)
           \/ ~Truthy(parsed.val.reasoning)
           \/ ~IsString(parsed.val.alignment)
        THEN fallbackResponseParsing(responseText)
        ELSE [alignment |-> Str(ToUpperCase(parsed.val.alignment.s)),
              reasoning |-> parsed.val.reasoning,
              keyFindings |-> OrElse(parsed.val.keyFindings, Array(<<>>)),
              recommendations |-> Array(<<>>)]

(***************************************************************************)
(* Inputs of the validation functions: request bodies built from sample    *)
(* members.  Either the sections vary over every list of samples and the   *)
(* criteria over a few lists, or the other way round.                      *)
(***************************************************************************)
SeqsUpTo(S, n) == UNION {[1..k -> S] : k \in 0..n}

UrlSamples ==
    {Undef, Num5, Str(<<"a">>), Str(<<"a", ":", "a">>), Str(<<" ", "a", ":", " ">>)}

GoodSection == Section(Str(<<"a">>), Str(<<"a">>), Str(<<"a">>))
NoContentSection == Section(Undef, Str(<<"a">>), Undef)

SectionSamples ==
    {GoodSection,
     Section(Str(<<" ", " ", "a", " ">>), Str(<<" ", "a">>), Str(<<"a", " ">>)),
     Section(Str(<<"a">>), Str(<<" ">>), Str(<<"a">>)),
     Section(Str(<<"a">>), Str(<<"a">>), Str(<<"a", "a", "a">>)),
     Section(Str(<<"a">>), Str(<<"a">>), Str(<<>>)),
     Section(Str(<<"a">>), Num5, Num5),
     NoContentSection,
     NullSection}

GoodCriterion == Criterion(Str(<<"a">>), Str(<<"a">>), Undef, Undef)
OtherCriterion == Criterion(Str(<<":">>), Str(<<"a", "a">>), Str(<<"a">>), True)

CriterionSamples ==
    {GoodCriterion,
     OtherCriterion,
     Criterion(Str(<<" ", " ", "a">>), Str(<<"a", " ">>), Str(<<" ", "a", " ">>), True),
     Criterion(Str(<<"a">>), Str(<<" ">>), Str(<<>>), False),
     Criterion(Undef, Str(<<"a">>), Num5, Undef),
     Criterion(Str(<<"a">>), Undef, Undef, Str(<<"a">>)),
     Criterion(Str(<<"a">>), Str(<<"a">>), Undef, Null),
     NullCriterion}

SectionLists ==
    {Arr(l) : l \in SeqsUpTo(SectionSamples, MaxSecs)} \cup {NoArr, StrArr}
CriterionLists ==
    {Arr(l) : l \in SeqsUpTo(CriterionSamples, MaxCrit)} \cup {NoArr, StrArr}

FewSectionLists ==
    {Arr(<<GoodSection>>), Arr(<<>>), Arr(<<NoContentSection>>), NoArr}
FewCriterionLists ==
    {Arr(<<GoodCriterion>>), Arr(<<>>), Arr(<<NullCriterion>>), NoArr}

Bodies ==
    {NoBody}
    \cup {Body(u, ss, cs) : u \in UrlSamples, ss \in SectionLists,
                            cs \in FewCriterionLists}
    \cup {Body(u, ss, cs) : u \in UrlSamples, ss \in FewSectionLists,
                            cs \in CriterionLists}

Envs == [maxContent : {0, 2}, maxSections : {0, 1}]

(***************************************************************************)
(* The validation functions applied to a request body.                     *)
(***************************************************************************)
NoResult == [threw |-> FALSE, isValid |-> FALSE, errors |-> <<>>]
NoNorm == [t |-> "none"]
NoEnv == [maxContent |-> 0, maxSections |-> 0]

\* The variables of the parts that a specification leaves at rest.
NotValidated == vres = NoResult /\ san1 = NoBody /\ san2 = NoBody
NoText == llmText = <<>> /\ normB = NoNorm /\ normA = NoNorm
NotAborted == [aborted |-> FALSE, criterion |-> 0]

\* utils/model.ts: the criteria a fresh 'criteria:v1' store starts with.
defaultCriteria ==
    << [id |-> Str(<<"accessibility">>), name |-> Str(<<"Accessibility">>),
        selected |-> True],
       [id |-> Str(<<"performance">>), name |-> Str(<<"Performance">>),
        selected |-> True],
       [id |-> Str(<<"security">>), name |-> Str(<<"Security headers">>),
        selected |-> True],
       [id |-> Str(<<"metadata">>), name |-> Str(<<"Metadata">>), selected |-> True],
       [id |-> Str(<<"content">>), name |-> Str(<<"Content quality">>),
        selected |-> False] >>

\* The client when the application is opened with an empty localStorage.
NoClient ==
    /\ websites = <<>>
    /\ homeWebsites = <<>>
    /\ storedCriteria = defaultCriteria
    /\ ids = 0
    /\ now = 0
    /\ selectedWebsite = Null
    /\ evaluator = [isEvaluating |-> FALSE, evaluationAbortController |-> "null",
                    website |-> Null, said |-> ""]
    /\ batch = [isRunning |-> FALSE, status |-> "idle", total |-> 0, completed |-> 0,
                list |-> <<>>, i |-> 0, processing |-> <<>>, failed |-> <<>>,
                updated |-> <<>>]

NoRun ==
    /\ endpoint = "none"
    /\ configured = TRUE
    /\ abort = NotAborted
    /\ data = NoBody
    /\ idx = 0
    /\ attempt = 0
    /\ lastError = ""
    /\ log = <<>>
    /\ fetches = 0
    /\ llmCalls = 0
    /\ delays = <<>>
    /\ results = <<>>
    /\ response = [status |-> 0]

InitValidate ==
    /\ pc = "input"
    /\ req \in Bodies
    /\ env \in Envs
    /\ vres = NoResult
    /\ san1 = NoBody
    /\ san2 = NoBody
    /\ NoText
    /\ NoRun
    /\ NoClient

CallValidate ==
    /\ pc = "input"
    /\ vres' = validateRequest(req, env)
    /\ pc' = "validated"
    /\ UNCHANGED <<req, env, clientVars, san1, san2, normVars, runVars>>

CallSanitize ==
    /\ pc = "validated"
    /\ san1' = sanitizeInput(req)
    /\ pc' = "sanitized"
    /\ UNCHANGED <<req, env, clientVars, vres, san2, normVars, runVars>>

CallSanitizeAgain ==
    /\ pc = "sanitized"
    /\ san2' = sanitizeInput(san1)
    /\ pc' = "resanitized"
    /\ UNCHANGED <<req, env, clientVars, vres, san1, normVars, runVars>>

NextValidate == CallValidate \/ CallSanitize \/ CallSanitizeAgain

SpecValidate == InitValidate /\ [][NextValidate]_vars


(***************************************************************************)
(* The two response parsers applied to a model text.  The texts: a JSON    *)
(* object of up to MaxMembers members, bare or wrapped in a fence or in    *)
(* prose, and every sequence of up to MaxWords other tokens.               *)
(***************************************************************************)
ObjectTexts ==
    {<<"{">> \o members \o <<"}">> : members \in SeqsUpTo(MemberTokens, MaxMembers)}

Prefixes == {<<>>, <<FenceJson>>, <<"Sure:">>}
Suffixes == {<<>>, <<Fence>>, <<"}">>}

OtherTokens ==
    {"ALIGNMENT:", "LOW", "REASONING:", "too vague", "KEY_FINDINGS", "null", "{",
     Fence}

Texts ==
    {pre \o obj \o suf : pre \in Prefixes, obj \in ObjectTexts, suf \in Suffixes}
    \cup SeqsUpTo(OtherTokens, MaxWords)

InitNormalize ==
    /\ pc = "text"
    /\ llmText \in Texts
    /\ normB = NoNorm
    /\ normA = NoNorm
    /\ req = NoBody
    /\ env = NoEnv
    /\ NotValidated
    /\ NoRun
    /\ NoClient

\* Lines 931-984 of evaluateCriterionWithRetry on llmText.
NormalizeResponse ==
    /\ pc = "text"
    /\ normB' = IF NormalizeThrows(llmText)
                THEN [t |-> "threw"]
                ELSE [t |-> "returned", val |-> Normalized(llmText)]
    /\ pc' = "normalized"
    /\ UNCHANGED <<req, env, clientVars, valVars, llmText, normA, runVars>>

\* WatsonxService.parseLLMResponse on llmText.
ParseResponse ==
    /\ pc = "normalized"
    /\ normA' = [t |-> "returned", val |-> parseLLMResponse(llmText)]
    /\ pc' = "parsed"
    /\ UNCHANGED <<req, env, clientVars, valVars, llmText, normB, runVars>>

NextNormalize == NormalizeResponse \/ ParseResponse

SpecNormalize == InitNormalize /\ [][NextNormalize]_vars

(***************************************************************************)
(* The LLM clients.  An HTTP exchange with the model endpoint ends in a    *)
(* network error, a status that is not 2xx, a 200 whose body lacks the     *)
(* generated text, or a 200 carrying a text.                               *)
(***************************************************************************)
Http(kind, status, text) == [kind |-> kind, status |-> status, text |-> text]

LlmTexts ==
    {<<"{", "\"alignment\":\"HIGH\"", "\"reasoning\":\"x\"", "\"keyInsights\":[\"a\"]", "}">>,
     <<FenceJson, "{", "\"alignment\":\"LOW\"", "\"reasoning\":\"x\"", "}", Fence>>,
     <<"{", "\"alignment\":\"EXCELLENT\"", "\"reasoning\":\"x\"", "}">>,
     <<"ALIGNMENT:", "LOW", "REASONING:", "too vague">>,
     <<"null">>}

HttpResponses ==
    {Http("network", 0, <<>>), Http("status", 401, <<>>), Http("status", 500, <<>>),
     Http("malformed", 200, <<>>)}
    \cup {Http("text", 200, t) : t \in LlmTexts}

Failed(msg, n) == [ok |-> FALSE, text |-> <<>>, msg |-> msg, fetches |-> n]
Generated(text, n) == [ok |-> TRUE, text |-> text, msg |-> "", fetches |-> n]

ApiErrorMessage(status) ==
    IF status = 401 THEN "Watsonx.ai API error: 401" ELSE "Watsonx.ai API error: 500"

\* generateTextWithLLM: `first` answers the request sent with the API key;
\* on a 401 an IAM token is fetched (iamOk) and, with it, a second request is
\* sent, answered by `second`.  A failure of the fallback leaves the first
\* response in place.
generateTextWithLLM(cfg, first, iamOk, second) ==
    IF ~cfg
    THEN Failed("Missing Watsonx.ai configuration", 0)
    ELSE IF first.kind = "network"
         THEN Failed("fetch failed", 1)
         ELSE LET retried == first.status = 401 /\ iamOk
                  final == IF retried /\ second.kind # "network" THEN second ELSE first
                  n == IF retried THEN 2 ELSE 1
              IN  IF final.kind = "status"
                  THEN Failed(ApiErrorMessage(final.status), n)
                  ELSE IF final.kind = "malformed"
                       THEN Failed("TypeError: cannot read choices[0]", n)
                       ELSE Generated(final.text, n)

\* The exchanges drawn for a call of generateTextWithLLM: any answer to the
\* first request, and a 401 or a text in answer to the second.
FirstResponses == HttpResponses \ {Http("malformed", 200, <<>>)}
SecondResponses ==
    {Http("status", 401, <<>>),
     Http("text", 200, <<"ALIGNMENT:", "LOW", "REASONING:", "too vague">>)}

LlmOutcomes(cfg) ==
    {generateTextWithLLM(cfg, first, iamOk, second) :
         first \in FirstResponses, iamOk \in BOOLEAN, second \in SecondResponses}

\* WatsonxService.callWatsonxAPI followed by the generated_text check of
\* evaluateCriterion: one request, no retry.
callWatsonxAPI(http) ==
    IF http.kind \in {"network", "status"}
    THEN Failed("Watsonx.ai API call failed", 1)
    ELSE IF http.kind = "malformed" \/ http.text = <<>>
         THEN Failed("Invalid response format from Watsonx.ai", 1)
         ELSE Generated(http.text, 1)

(***************************************************************************)
(* The results of the two evaluation loops.                                *)
(***************************************************************************)
maxRetries == 2
InterCriterionDelay == 1000

RECURSIVE Pow2(_)
Pow2(n) == IF n = 0 THEN 1 ELSE 2 * Pow2(n - 1)

\* A backoff of two to the number of calls already made.
BackoffDelayOfCallsMade(a) == Pow2(a + 1) * 1000

\* Math.pow(2, attempt) * 1000
BackoffDelay(a) == Pow2(a) * 1000

NumberWord(n) ==
    CASE n = 1 -> "1" [] n = 2 -> "2" [] n = 3 -> "3" [] n = 4 -> "4" [] OTHER -> "n"

\* selectedSections.map(s => s.title)
Titles(sections) == [i \in 1..Len(sections) |-> sections[i].title]

\* selectedSections.map(s => s.content).join('\n\n---\n\n')
RECURSIVE JoinContents(_)
JoinContents(sections) ==
    IF sections = <<>>
    THEN <<>>
    ELSE IF Len(sections) = 1
         THEN sections[1].content.s
         ELSE sections[1].content.s \o <<"\n\n---\n\n">> \o JoinContents(Tail(sections))

\* s.content.substring(0, 200) and s.title throw on a content that is no
\* string and on a null section.
PromptThrows(sections) ==
    \E i \in 1..Len(sections) :
        sections[i].t # "object" \/ ~IsString(sections[i].content)

\* Building a result reads s.title and s.content of every section.
ResultThrows(sections) == \E i \in 1..Len(sections) : sections[i].t # "object"

\* A completed result that reports the loop variable as its attempts.
CompletedResultZeroBased(criterion, sections, llmResponse, a) ==
    LET n == Normalized(llmResponse)
    IN  [criterionId |-> criterion.id,
         name |-> criterion.name,
         status |-> "completed",
         alignment |-> n.alignment,
         reasoning |-> n.reasoning,
         selectedSections |-> Titles(sections),
         contentAnalyzed |-> JoinContents(sections),
         keyInsights |-> n.keyInsights,
         attempts |-> a]

CompletedResult(criterion, sections, llmResponse, a) ==
    LET n == Normalized(llmResponse)
    IN  [criterionId |-> criterion.id,
         name |-> criterion.name,
         status |-> "completed",
         alignment |-> n.alignment,
         reasoning |-> n.reasoning,
         selectedSections |-> Titles(sections),
         contentAnalyzed |-> JoinContents(sections),
         keyInsights |-> n.keyInsights,
         attempts |-> a + 1]

\* An error result that reports the first error of the criterion.
ErrorReasoningFirst(errors, last) ==
    Str(<<"Evaluation failed after", NumberWord(maxRetries + 1),
          "attempts. Last error:", IF errors = <<>> THEN last ELSE Head(errors),
          "Using fallback analysis.">>)

ErrorReasoning(errors, last) ==
    Str(<<"Evaluation failed after", NumberWord(maxRetries + 1),
          "attempts. Last error:", last, "Using fallback analysis.">>)

ErrorResult(criterion, sections, errors, last) ==
    [criterionId |-> criterion.id,
     name |-> criterion.name,
     status |-> "error",
     alignment |-> Str(<<"MEDIUM">>),
     reasoning |-> ErrorReasoning(errors, last),
     selectedSections |-> Titles(sections),
     contentAnalyzed |-> JoinContents(sections),
     keyInsights |->
         Array(<<"Fallback evaluation used after", NumberWord(maxRetries + 1),
                 "failed attempts">>),
     attempts |-> maxRetries + 1,
     lastError |-> last]

\* The result evaluateWebsiteWithLLM pushes for what evaluateCriterion
\* returned: the parsed response, or its fallback evaluation.
WatsonxResult(criterion, sections, outcome) ==
    LET evaluation ==
            IF outcome.ok
            THEN parseLLMResponse(outcome.text)
            ELSE [alignment |-> Str(<<"MEDIUM">>),
                  reasoning |->
                      Str(<<"Evaluation failed for">> \o criterion.name.s
                          \o <<outcome.msg, "Please try again or contact support.">>),
                  keyFindings |-> Array(<<>>),
                  recommendations |-> Array(<<>>)]
    IN  [criterionId |-> criterion.id,
         name |-> criterion.name,
         status |-> "na",
         alignment |-> evaluation.alignment,
         reasoning |-> evaluation.reasoning,
         selectedSections |-> Titles(sections),
         contentAnalyzed |-> JoinContents(sections),
         definition |-> criterion.definition,
         keyFindings |-> evaluation.keyFindings,
         recommendations |-> evaluation.recommendations]

\* results.unshift(result): the new result goes first.
Unshift(rs, r) == <<r>> \o rs

\* results.push(result)
Push(rs, r) == Append(rs, r)

\* evaluationSummary of the /evaluate response.  averageAlignment is the
\* quotient alignmentSum / count, NaN when there are no results.
Score(alignment) ==
    IF alignment = Str(<<"HIGH">>) THEN 3
    ELSE IF alignment = Str(<<"LOW">>) THEN 1 ELSE 2

\* scores[r.alignment] || 2, summed
RECURSIVE SumScores(_)
SumScores(rs) ==
    IF rs = <<>> THEN 0 ELSE Score(Head(rs).alignment) + SumScores(Tail(rs))

\* r.attempts || 1, summed
RECURSIVE SumAttempts(_)
SumAttempts(rs) ==
    IF rs = <<>>
    THEN 0
    ELSE (IF Head(rs).attempts = 0 THEN 1 ELSE Head(rs).attempts)
         + SumAttempts(Tail(rs))

\* results.filter(r => r.status === status).length
CountStatus(rs, status) == Cardinality({i \in 1..Len(rs) : rs[i].status = status})

\* A count of every completed result, retried or not.
CountCompletedAsRetried(rs) ==
    Cardinality({i \in 1..Len(rs) : rs[i].status = "completed"})

\* results.filter(r => r.status === 'completed' && r.attempts > 1).length
CountRetried(rs) ==
    Cardinality({i \in 1..Len(rs) : rs[i].status = "completed" /\ rs[i].attempts > 1})

evaluationSummary(criteria, rs) ==
    [totalCriteria |-> Len(criteria),
     completedEvaluations |-> CountStatus(rs, "completed"),
     failedEvaluations |-> CountStatus(rs, "error"),
     averageAlignment |->
         [sum |-> SumScores(rs), count |-> Len(rs), nan |-> Len(rs) = 0],
     retryStats |->
         [totalAttempts |-> SumAttempts(rs),
          successfulOnRetry |-> CountRetried(rs),
          failedAfterRetries |-> CountStatus(rs, "error")]]

(***************************************************************************)
(* The two evaluation endpoints.  A server takes one request at a time     *)
(* through these steps; the only state that outlives a step is the state   *)
(* of the handler's own closure.                                           *)
(***************************************************************************)
Url == Str(<<"a", ":", "a">>)

\* Criterion number k, with an id of its own.
CriterionNo(k) ==
    Criterion(Str([i \in 1..k |-> "a"]), Str(<<"a">>), Undef, Undef)

CriteriaOf(n) == [k \in 1..n |-> CriterionNo(k)]

Requests ==
    {Body(Url, Arr(<<GoodSection>>), Arr(CriteriaOf(n))) : n \in 0..MaxCrit}
    \cup {Body(Url, Arr(<<GoodSection>>), Arr(<<GoodCriterion, GoodCriterion>>)),
          Body(Str(<<" ", "a", ":", " ">>),
               Arr(<<Section(Str(<<" ", " ", "a", " ">>), Str(<<" ", "a">>),
                             Str(<<"a", " ">>))>>),
               Arr(<<Criterion(Str(<<" ", " ", "a">>), Str(<<"a", " ">>),
                               Str(<<" ", "a", " ">>), True)>>)),
          Body(Undef, Arr(<<GoodSection>>), Arr(CriteriaOf(1))),
          Body(Url, NoArr, Arr(CriteriaOf(1))),
          Body(Url, Arr(<<>>), Arr(CriteriaOf(1))),
          Body(Url, Arr(<<NoContentSection>>), Arr(CriteriaOf(1))),
          Body(Url, Arr(<<NullSection>>), Arr(CriteriaOf(1)))}

Init ==
    /\ pc = "idle"
    /\ req = NoBody
    /\ env = NoEnv
    /\ NotValidated
    /\ NoText
    /\ endpoint = "none"
    /\ configured \in BOOLEAN
    /\ abort = NotAborted
    /\ data = NoBody
    /\ idx = 0
    /\ attempt = 0
    /\ lastError = ""
    /\ log = <<>>
    /\ fetches = 0
    /\ llmCalls = 0
    /\ delays = <<>>
    /\ results = <<>>
    /\ response = [status |-> 0]
    /\ NoClient

Wait(kind, ms, after) == [kind |-> kind, ms |-> ms, after |-> after]

\* ---- POST /evaluate (server/llmService.js) ----

\* The handler up to the loop over the criteria: the check of the required
\* fields answers 400, anything else enters the loop.
ReceiveEvaluate ==
    \E r \in Requests :
        /\ pc = "idle"
        /\ req' = r
        /\ endpoint' = "evaluate"
        /\ IF \/ ~Truthy(r.websiteUrl)
              \/ r.selectedSections.t = "undefined"
              \/ r.criteria.t = "undefined"
           THEN /\ response' = [status |-> 400, error |-> "Missing required fields"]
                /\ pc' = "responded"
                /\ data' = data
           ELSE /\ data' = r
                /\ pc' = "next"
                /\ response' = response
        /\ UNCHANGED <<env, clientVars, valVars, normVars, configured, abort, idx, attempt, lastError,
                       log, fetches, llmCalls, delays, results>>

\* A loop that does not await evaluateCriterionWithRetry: the next criterion
\* starts while the one before it is calling or waiting.
NextCriterionWithoutAwait ==
    /\ pc \in {"next", "calling", "backoff"}
    /\ idx < Len(data.criteria.items)
    /\ idx' = idx + 1
    /\ attempt' = 0
    /\ lastError' = ""
    /\ log' = <<>>
    /\ fetches' = 0
    /\ pc' = "attempt"
    /\ UNCHANGED <<req, env, clientVars, valVars, normVars, endpoint, configured, abort, data,
                   llmCalls, delays, results, response>>

\* for (const criterion of criteria): the next criterion enters
\* evaluateCriterionWithRetry with attempt = 0.
NextCriterion ==
    /\ pc = "next"
    /\ idx < Len(data.criteria.items)
    /\ idx' = idx + 1
    /\ attempt' = 0
    /\ lastError' = ""
    /\ log' = <<>>
    /\ fetches' = 0
    /\ pc' = "attempt"
    /\ UNCHANGED <<req, env, clientVars, valVars, normVars, endpoint, configured, abort, data,
                   llmCalls, delays, results, response>>

\* A catch block that rethrows after the last attempt: the handler's catch
\* answers 500 and the batch is lost.
AttemptFailsAndAborts(msg, n) ==
    /\ lastError' = msg
    /\ log' = Append(log, msg)
    /\ fetches' = fetches + n
    /\ IF attempt < maxRetries
       THEN /\ delays' = Append(delays, Wait("backoff", BackoffDelay(attempt), idx))
            /\ pc' = "backoff"
            /\ UNCHANGED <<results, response>>
       ELSE /\ response' = [status |-> 500, error |-> "Failed to evaluate website"]
            /\ pc' = "responded"
            /\ UNCHANGED <<results, delays>>

\* The catch block of an attempt and what follows it: a backoff wait while
\* attempt < maxRetries, else the error result (whose construction, outside
\* the try block, reaches the handler's catch when it throws).
AttemptFails(msg, n) ==
    /\ lastError' = msg
    /\ log' = Append(log, msg)
    /\ fetches' = fetches + n
    /\ IF attempt < maxRetries
       THEN /\ delays' = Append(delays, Wait("backoff", BackoffDelay(attempt), idx))
            /\ pc' = "backoff"
            /\ UNCHANGED <<results, response>>
       ELSE IF ResultThrows(data.selectedSections.items)
            THEN /\ response' = [status |-> 500, error |-> "Failed to evaluate website"]
                 /\ pc' = "responded"
                 /\ UNCHANGED <<results, delays>>
            ELSE /\ results' =
                        Push(results,
                               ErrorResult(data.criteria.items[idx],
                                           data.selectedSections.items,
                                           Append(log, msg), msg))
                 /\ pc' = "next"
                 /\ UNCHANGED <<delays, response>>

\* A pass of the retry loop that calls generateTextWithLLM twice.
StartAttemptCallsTwice ==
    /\ pc = "attempt"
    /\ IF PromptThrows(data.selectedSections.items)
       THEN /\ AttemptFails("TypeError: cannot build the prompt", 0)
            /\ UNCHANGED llmCalls
       ELSE /\ pc' = "calling"
            /\ llmCalls' = llmCalls + 2
            /\ UNCHANGED <<lastError, log, fetches, delays, results, response>>
    /\ UNCHANGED <<req, env, clientVars, valVars, normVars, endpoint, configured, abort, data, idx,
                   attempt>>

\* One pass of the retry loop up to the await of generateTextWithLLM.
StartAttempt ==
    /\ pc = "attempt"
    /\ IF PromptThrows(data.selectedSections.items)
       THEN /\ AttemptFails("TypeError: cannot build the prompt", 0)
            /\ UNCHANGED llmCalls
       ELSE /\ pc' = "calling"
            /\ llmCalls' = llmCalls + 1
            /\ UNCHANGED <<lastError, log, fetches, delays, results, response>>
    /\ UNCHANGED <<req, env, clientVars, valVars, normVars, endpoint, configured, abort, data, idx,
                   attempt>>

\* generateTextWithLLM settles: a text is parsed and returned as a completed
\* result, an error (or a text whose parsing throws) is caught.
LlmReturns ==
    /\ pc = "calling"
    /\ \E o \in LlmOutcomes(configured) :
           IF o.ok /\ ~NormalizeThrows(o.text)
           THEN /\ results' =
                       Push(results,
                              CompletedResult(data.criteria.items[idx],
                                              data.selectedSections.items,
                                              o.text, attempt))
                /\ log' = Append(log, "returned")
                /\ fetches' = fetches + o.fetches
                /\ pc' = "next"
                /\ UNCHANGED <<lastError, delays, response>>
           ELSE AttemptFails(IF o.ok
                             THEN "TypeError: parsedResponse is null"
                             ELSE o.msg,
                             o.fetches)
    /\ UNCHANGED <<req, env, clientVars, valVars, normVars, endpoint, configured, abort, data, idx,
                   attempt, llmCalls>>

\* The backoff timer fires: attempt++ and the loop body runs again.
BackoffElapsed ==
    /\ pc = "backoff"
    /\ attempt' = attempt + 1
    /\ pc' = "attempt"
    /\ UNCHANGED <<req, env, clientVars, valVars, normVars, endpoint, configured, abort, data, idx,
                   lastError, log, fetches, llmCalls, delays, results, response>>

\* After the last criterion: the response with its summary.
Respond ==
    /\ pc = "next"
    /\ idx = Len(data.criteria.items)
    /\ response' =
           [status |-> 200, success |-> TRUE, results |-> results,
            evaluationSummary |-> evaluationSummary(data.criteria.items, results)]
    /\ pc' = "responded"
    /\ UNCHANGED <<req, env, clientVars, valVars, normVars, endpoint, configured, abort, data, idx,
                   attempt, lastError, log, fetches, llmCalls, delays, results>>

\* cancelEvaluation in the client (ui/Evaluator.tsx), while its fetch of
\* /evaluate is pending: the AbortController aborts the fetch.  The handler
\* on the server reads neither the signal nor the state of the connection.
CancelEvaluation ==
    /\ endpoint = "evaluate"
    /\ pc \notin {"idle", "responded"}
    /\ ~abort.aborted
    /\ abort' = [aborted |-> TRUE, criterion |-> idx]
    /\ UNCHANGED <<pc, req, env, clientVars, valVars, normVars, endpoint, configured, data, idx,
                   attempt, lastError, log, fetches, llmCalls, delays, results,
                   response>>

\* ---- POST /api/evaluate (server/middleware.js) ----

\* The handler up to the loop of evaluateWebsiteWithLLM: validateRequest,
\* sanitizeInput and the constructor of WatsonxService.  Whatever throws
\* reaches the handler's catch, which answers 500.
ReceiveApiEvaluate ==
    \E r \in Requests :
        LET v == validateRequest(r, env)
            d == sanitizeInput(r)
        IN  /\ pc = "idle"
            /\ req' = r
            /\ endpoint' = "apiEvaluate"
            /\ vres' = v
            /\ IF v.threw
               THEN /\ response' = [status |-> 500, error |-> "Evaluation failed"]
                    /\ pc' = "responded"
                    /\ data' = data
               ELSE IF ~v.isValid
                    THEN /\ response' = [status |-> 400, error |-> "Invalid request",
                                         details |-> v.errors]
                         /\ pc' = "responded"
                         /\ data' = data
                    ELSE IF d.t = "thrown" \/ ~configured
                         THEN /\ response' =
                                     [status |-> 500, error |-> "Evaluation failed"]
                              /\ pc' = "responded"
                              /\ data' = data
                         ELSE /\ data' = d
                              /\ pc' = "apiNext"
                              /\ response' = response
            /\ UNCHANGED <<env, clientVars, san1, san2, normVars, configured, abort, idx, attempt,
                           lastError, log, fetches, llmCalls, delays, results>>

\* for (const criterion of criteria): evaluateCriterion up to the await of
\* callWatsonxAPI.
ApiNextCriterion ==
    /\ pc = "apiNext"
    /\ idx < Len(data.criteria.items)
    /\ idx' = idx + 1
    /\ log' = <<>>
    /\ fetches' = 0
    /\ llmCalls' = llmCalls + 1
    /\ pc' = "apiCalling"
    /\ UNCHANGED <<req, env, clientVars, valVars, normVars, endpoint, configured, abort, data,
                   attempt, lastError, delays, results, response>>

\* callWatsonxAPI settles; evaluateCriterion returns the parsed response or
\* its fallback evaluation, the loop pushes the result and, unless this was
\* the last criterion, starts the one-second wait.
ApiLlmReturns ==
    /\ pc = "apiCalling"
    /\ \E http \in HttpResponses :
           LET o == callWatsonxAPI(http)
           IN  /\ results' =
                      Push(results,
                             WatsonxResult(data.criteria.items[idx],
                                           data.selectedSections.items, o))
               /\ log' = <<IF o.ok THEN "returned" ELSE o.msg>>
               /\ fetches' = o.fetches
    /\ IF idx < Len(data.criteria.items)
       THEN /\ delays' = Append(delays, Wait("criterion", InterCriterionDelay, idx))
            /\ pc' = "apiDelay"
       ELSE /\ delays' = delays
            /\ pc' = "apiNext"
    /\ UNCHANGED <<req, env, clientVars, valVars, normVars, endpoint, configured, abort, data, idx,
                   attempt, lastError, llmCalls, response>>

ApiDelayElapsed ==
    /\ pc = "apiDelay"
    /\ pc' = "apiNext"
    /\ UNCHANGED <<req, env, clientVars, valVars, normVars, runVars>>

ApiRespond ==
    /\ pc = "apiNext"
    /\ idx = Len(data.criteria.items)
    /\ response' =
           [status |-> 200, success |-> TRUE, results |-> results,
            metadata |->
                [sectionsAnalyzed |-> Len(data.selectedSections.items),
                 criteriaEvaluated |-> Len(data.criteria.items)]]
    /\ pc' = "responded"
    /\ UNCHANGED <<req, env, clientVars, valVars, normVars, endpoint, configured, abort, data, idx,
                   attempt, lastError, log, fetches, llmCalls, delays, results>>

Next ==
    \/ ReceiveEvaluate
    \/ NextCriterion
    \/ StartAttempt
    \/ LlmReturns
    \/ BackoffElapsed
    \/ Respond
    \/ ReceiveApiEvaluate
    \/ ApiNextCriterion
    \/ ApiLlmReturns
    \/ ApiDelayElapsed
    \/ ApiRespond

Spec == Init /\ [][Next]_vars

\* The server together with a client that may cancel its pending request.
NextOrCancel == Next \/ CancelEvaluation

SpecCancel == Init /\ [][NextOrCancel]_vars

(***************************************************************************)
(* The client: ui/App.tsx, ui/HomePage.tsx, ui/Evaluator.tsx,              *)
(* ui/BatchEvaluator.tsx and ui/CriteriaSidebar.tsx over the two stores of *)
(* localStorage.  A website is [id, lastEvaluated, evaluations], with      *)
(* lastEvaluated = 0 for a website never evaluated; a stored criterion is  *)
(* [id, name, selected].  The sidebar, the single evaluation and the batch  *)
(* evaluation are three specifications over the same stores.               *)
(***************************************************************************)
InitClient ==
    /\ pc = "idle"
    /\ req = NoBody
    /\ env = NoEnv
    /\ NotValidated
    /\ NoText
    /\ NoRun
    /\ NoClient

\* ---- CriteriaSidebar ----

\* The draft has a name that is not blank; generateId() makes an id of the
\* time and four random characters, one not given before.
onSaveNewCriterion ==
    \E name \in {<<>>, <<" ">>, <<"a">>, <<" ", "b">>} :
        /\ ids < MaxGenerated
        /\ Trim(name) # <<>>
        /\ storedCriteria' =
               <<[id |-> Str(<<"c-">> \o [k \in 1..(ids + 1) |-> "1"]),
                  name |-> Str(Trim(name)), selected |-> Undef]>> \o storedCriteria
        /\ ids' = ids + 1
        /\ UNCHANGED <<pc, req, env, valVars, normVars, runVars, websites, homeWebsites,
                       now, selectedWebsite, evaluator, batch>>

\* The draft is the one onEditClick made of a criterion of the list.
onSaveEditCriterion ==
    \E k \in 1..Len(storedCriteria), name \in {<<>>, <<" ">>, <<"a">>, <<" ", "b">>} :
        /\ Trim(name) # <<>>
        /\ storedCriteria' =
               [j \in 1..Len(storedCriteria) |->
                   IF storedCriteria[j].id = storedCriteria[k].id
                   THEN [storedCriteria[j] EXCEPT !.name = Str(Trim(name))]
                   ELSE storedCriteria[j]]
        /\ UNCHANGED <<pc, req, env, valVars, normVars, runVars, websites, homeWebsites,
                       ids, now, selectedWebsite, evaluator, batch>>

onRemove ==
    \E k \in 1..Len(storedCriteria) :
        /\ storedCriteria' =
               SelectSeq(storedCriteria, LAMBDA c : c.id # storedCriteria[k].id)
        /\ UNCHANGED <<pc, req, env, valVars, normVars, runVars, websites, homeWebsites,
                       ids, now, selectedWebsite, evaluator, batch>>

\* ImportExportModal.handleImport and the onImport it calls: of what
\* JSON.parse makes of the pasted text, an array whose items are objects with
\* a string id and a string name replaces the list.
handleImport ==
    \E parsed \in
          {NoArr, StrArr, Arr(<<>>), Arr(<<NullCriterion>>),
           Arr(<<Criterion(Undef, Str(<<"a">>), Undef, Undef)>>),
           Arr(<<Criterion(Str(<<"a">>), Str(<<"a">>), Undef, True)>>),
           Arr(<<NullCriterion, Criterion(Str(<<"a">>), Str(<<"a">>), Undef, Undef)>>),
           Arr(<<Criterion(Str(<<"a">>), Str(<<"a">>), Undef, Undef),
                 Criterion(Str(<<"b">>), Str(<<"b">>), Undef, Undef)>>),
           Arr(<<Criterion(Str(<<"a">>), Str(<<"a">>), Undef, Undef),
                 Criterion(Str(<<"a">>), Str(<<"b">>), Undef, Undef)>>)} :
        /\ parsed.t = "array"
        /\ \A k \in 1..Len(parsed.items) :
               /\ parsed.items[k].t = "object"
               /\ IsString(parsed.items[k].id)
               /\ IsString(parsed.items[k].name)
        /\ storedCriteria' =
               [k \in 1..Len(parsed.items) |->
                   [id |-> parsed.items[k].id, name |-> parsed.items[k].name,
                    selected |-> Undef]]
        /\ UNCHANGED <<pc, req, env, valVars, normVars, runVars, websites, homeWebsites,
                       ids, now, selectedWebsite, evaluator, batch>>

NextCriteria ==
    \/ onSaveNewCriterion
    \/ onSaveEditCriterion
    \/ onRemove
    \/ handleImport

SpecCriteria == InitClient /\ [][NextCriteria]_vars

\* ---- HomePage and App ----

\* addWebsites: every entry with a url and a name becomes a website with a
\* fresh id and no evaluations; the state is written to 'websites:v1'.
addWebsites ==
    \E n \in 1..MaxWebsites :
        /\ selectedWebsite = Null
        /\ ids + n <= MaxWebsites
        /\ homeWebsites' =
               homeWebsites \o
               [k \in 1..n |-> [id |-> ids + k, lastEvaluated |-> 0, evaluations |-> <<>>]]
        /\ websites' = homeWebsites'
        /\ ids' = ids + n
        /\ UNCHANGED <<pc, req, env, valVars, normVars, runVars, storedCriteria, now,
                       selectedWebsite, evaluator, batch>>

removeWebsite ==
    \E k \in 1..Len(homeWebsites) :
        /\ selectedWebsite = Null
        /\ homeWebsites' = SelectSeq(homeWebsites, LAMBDA w : w.id # homeWebsites[k].id)
        /\ websites' = homeWebsites'
        /\ UNCHANGED <<pc, req, env, valVars, normVars, runVars, storedCriteria, ids, now,
                       selectedWebsite, evaluator, batch>>

\* The 'navigate-to-evaluator' event of a row of the home page: the website
\* is read from 'websites:v1' and a new Evaluator is mounted on it.
handleNavigateToEvaluator ==
    \E k \in 1..Len(websites) :
        /\ selectedWebsite = Null
        /\ ~evaluator.isEvaluating
        /\ selectedWebsite' = websites[k]
        /\ evaluator' = [isEvaluating |-> FALSE, evaluationAbortController |-> "null",
                         website |-> websites[k], said |-> ""]
        /\ UNCHANGED <<pc, req, env, valVars, normVars, runVars, websites, homeWebsites,
                       storedCriteria, ids, now, batch>>

\* "Back to Dashboard": the HomePage is mounted again and reads the store.
\* The state of the unmounted Evaluator is gone, a pending run of it goes on.
navigateToHome ==
    /\ selectedWebsite # Null
    /\ selectedWebsite' = Null
    /\ homeWebsites' = websites
    /\ evaluator' =
           IF evaluator.isEvaluating
           THEN evaluator
           ELSE [isEvaluating |-> FALSE, evaluationAbortController |-> "null",
                 website |-> Null, said |-> ""]
    /\ UNCHANGED <<pc, req, env, valVars, normVars, runVars, websites, storedCriteria,
                   ids, now, batch>>

\* App.handleWebsiteUpdated: the record with the id of updatedWebsite is
\* replaced in 'websites:v1'.
handleWebsiteUpdatedKeepingHistory(stored, updatedWebsite) ==
    [k \in 1..Len(stored) |->
        IF stored[k].id = updatedWebsite.id
        THEN [updatedWebsite EXCEPT !.evaluations = stored[k].evaluations \o @]
        ELSE stored[k]]

handleWebsiteUpdated(stored, updatedWebsite) ==
    [k \in 1..Len(stored) |->
        IF stored[k].id = updatedWebsite.id THEN updatedWebsite ELSE stored[k]]

\* ---- Evaluator ----

\* The results array of a 200 response of the evaluation API, one result for
\* each of the first criteria; alignment is missing, empty or any string.
ApiResults ==
    UNION { { [j \in 1..n |-> [criterionId |-> defaultCriteria[j].id, alignment |-> f[j]]] :
                f \in [1..n -> {Undef, Str(<<>>), Str(<<"LOW">>), Str(<<"PARTIAL">>)}] } :
            n \in 0..MaxResults }

\* The mapping of the API results to WebsiteEvaluation records, the same in
\* Evaluator.handleEvaluate and BatchEvaluator.evaluateWebsite.
websiteEvaluations(apiResults, date) ==
    [j \in 1..Len(apiResults) |->
        [criterionId |-> apiResults[j].criterionId,
         alignment |-> OrElse(apiResults[j].alignment, Str(<<"HIGH">>)),
         evaluatedAt |-> date]]

\* handleEvaluate up to the await of fetch: sections and criteria are
\* selected, the AbortController is made and stored.
handleEvaluate ==
    /\ selectedWebsite # Null
    /\ ~evaluator.isEvaluating
    /\ now < MaxRuns
    /\ \E k \in 1..Len(storedCriteria) : Truthy(storedCriteria[k].selected)
    /\ evaluator' = [isEvaluating |-> TRUE, evaluationAbortController |-> "live",
                     website |-> selectedWebsite, said |-> ""]
    /\ UNCHANGED <<pc, req, env, valVars, normVars, runVars, websites, homeWebsites,
                   storedCriteria, ids, now, selectedWebsite, batch>>

\* cancelEvaluation of the mounted Evaluator: abort() on its controller.
cancelEvaluation ==
    /\ selectedWebsite # Null
    /\ evaluator.evaluationAbortController = "live"
    /\ evaluator' = [evaluator EXCEPT !.evaluationAbortController = "aborted"]
    /\ UNCHANGED <<pc, req, env, valVars, normVars, runVars, websites, homeWebsites,
                   storedCriteria, ids, now, selectedWebsite, batch>>

\* fetch and response.json() resolve with a 200 response: the results are
\* mapped, onWebsiteUpdated stores the website and navigates home, and the
\* finally block resets the evaluator.
EvaluationSaved ==
    \E apiResults \in ApiResults :
        /\ evaluator.isEvaluating
        /\ evaluator.evaluationAbortController = "live"
        /\ now' = now + 1
        /\ websites' =
               handleWebsiteUpdated(websites,
                   [evaluator.website EXCEPT
                       !.lastEvaluated = now',
                       !.evaluations = websiteEvaluations(apiResults, now')])
        /\ selectedWebsite' = Null
        /\ homeWebsites' = IF selectedWebsite = Null THEN homeWebsites ELSE websites'
        /\ evaluator' = [isEvaluating |-> FALSE, evaluationAbortController |-> "null",
                         website |-> Null, said |-> ""]
        /\ UNCHANGED <<pc, req, env, valVars, normVars, runVars, storedCriteria, ids,
                       batch>>

\* A catch branch that leaves the AbortController in place.
EvaluationThrowsWithoutFinally ==
    /\ evaluator.isEvaluating
    /\ evaluator' =
           [evaluator EXCEPT
               !.isEvaluating = FALSE,
               !.said = IF evaluator.evaluationAbortController = "aborted"
                        THEN "cancelled" ELSE "failed"]
    /\ UNCHANGED <<pc, req, env, valVars, normVars, runVars, websites, homeWebsites,
                   storedCriteria, ids, now, selectedWebsite, batch>>

\* fetch or response.json() rejects: with an AbortError after abort(), which
\* is logged, otherwise with a network error, a non-2xx status or a body
\* without results, which is alerted; then the finally block.
EvaluationThrows ==
    /\ evaluator.isEvaluating
    /\ evaluator' =
           [evaluator EXCEPT
               !.isEvaluating = FALSE,
               !.evaluationAbortController = "null",
               !.said = IF evaluator.evaluationAbortController = "aborted"
                        THEN "cancelled" ELSE "failed"]
    /\ UNCHANGED <<pc, req, env, valVars, normVars, runVars, websites, homeWebsites,
                   storedCriteria, ids, now, selectedWebsite, batch>>

\* ---- BatchEvaluator ----

\* The loop of runBatchEvaluation after the website at i: the next website
\* is announced and awaited, or the batch is completed and isRunning reset.
NextWebsite(b) ==
    IF b.i < Len(b.list)
    THEN [b EXCEPT !.i = @ + 1, !.processing = Append(@, b.list[b.i + 1].id)]
    ELSE [b EXCEPT !.status = "completed", !.isRunning = FALSE]

\* runBatchEvaluation up to the first await: the component renders its
\* button for a list that is not empty and a progress that is idle.
runBatchEvaluation ==
    /\ ~batch.isRunning
    /\ batch.status = "idle"
    /\ websites # <<>>
    /\ now < MaxRuns
    /\ batch' = [isRunning |-> TRUE, status |-> "running", total |-> Len(websites),
                 completed |-> 0, list |-> websites, i |-> 1,
                 processing |-> <<websites[1].id>>, failed |-> <<>>, updated |-> <<>>]
    /\ UNCHANGED <<pc, req, env, valVars, normVars, runVars, websites, homeWebsites,
                   storedCriteria, ids, now, selectedWebsite, evaluator>>

\* evaluateWebsite returns the updated website (with no evaluations when no
\* section was selected): it is passed to onWebsiteUpdated and counted.
EvaluateWebsiteReturns ==
    \E apiResults \in ApiResults :
        /\ batch.isRunning
        /\ now' = now + 1
        /\ batch' =
               NextWebsite(
                   [batch EXCEPT
                       !.completed = @ + 1,
                       !.updated =
                           Append(@, [batch.list[batch.i] EXCEPT
                                         !.lastEvaluated = now',
                                         !.evaluations =
                                             websiteEvaluations(apiResults, now')])])
        /\ UNCHANGED <<pc, req, env, valVars, normVars, runVars, websites, homeWebsites,
                       storedCriteria, ids, selectedWebsite, evaluator>>

\* A failure that ends the batch with the status 'error'.
EvaluateWebsiteThrowsAndStops ==
    /\ batch.isRunning
    /\ batch' = [batch EXCEPT !.failed = Append(@, batch.list[batch.i].id),
                              !.status = "error", !.isRunning = FALSE]
    /\ UNCHANGED <<pc, req, env, valVars, normVars, runVars, websites, homeWebsites,
                   storedCriteria, ids, now, selectedWebsite, evaluator>>

\* evaluateWebsite throws (the scrape, the request or the mapping failed):
\* the failure is logged and the loop goes on.
EvaluateWebsiteThrows ==
    /\ batch.isRunning
    /\ batch' = NextWebsite([batch EXCEPT !.failed = Append(@, batch.list[batch.i].id)])
    /\ UNCHANGED <<pc, req, env, valVars, normVars, runVars, websites, homeWebsites,
                   storedCriteria, ids, now, selectedWebsite, evaluator>>

resetBatchProgress ==
    /\ ~batch.isRunning
    /\ batch.status # "idle"
    /\ batch' = [batch EXCEPT !.status = "idle", !.total = Len(websites),
                              !.completed = 0]
    /\ UNCHANGED <<pc, req, env, valVars, normVars, runVars, websites, homeWebsites,
                   storedCriteria, ids, now, selectedWebsite, evaluator>>

\* The home page and the evaluator of one website.
NextClient ==
    \/ addWebsites
    \/ removeWebsite
    \/ handleNavigateToEvaluator
    \/ navigateToHome
    \/ handleEvaluate
    \/ cancelEvaluation
    \/ EvaluationSaved
    \/ EvaluationThrows

SpecClient == InitClient /\ [][NextClient]_vars

\* The home page and the batch evaluator of its websites.
NextBatch ==
    \/ addWebsites
    \/ removeWebsite
    \/ runBatchEvaluation
    \/ EvaluateWebsiteReturns
    \/ EvaluateWebsiteThrows
    \/ resetBatchProgress

SpecBatch == InitClient /\ [][NextBatch]_vars

(***************************************************************************)
(* The request contract, stated apart from the validator.                  *)
(***************************************************************************)
\* The checks of the request contract that a body violates, each as the
\* place an error message has to name: [path, index, field].
Place(path, index, field) == [path |-> path, index |-> index, field |-> field]

NonEmptyString(v) == v.t = "string" /\ v.s # <<>>

ViolatedChecks(body, e) ==
    LET ss == body.selectedSections.items
        cs == body.criteria.items
    IN  {Place("websiteUrl", -1, "") : x \in
             {1} \cap (IF NonEmptyString(body.websiteUrl)
                          /\ ValidURL(body.websiteUrl.s) THEN {} ELSE {1})}
        \cup {Place("selectedSections", -1, "") : x \in
                 {1} \cap (IF body.selectedSections.t = "array" /\ ss # <<>>
                           THEN {} ELSE {1})}
        \cup {Place("selectedSections", i - 1, "") :
                 i \in {j \in 1..Len(ss) : ss[j].t # "object"}}
        \cup {Place("selectedSections", i - 1, "selector") :
                 i \in {j \in 1..Len(ss) :
                           ss[j].t = "object" /\ ~NonEmptyString(ss[j].selector)}}
        \cup {Place("selectedSections", i - 1, "title") :
                 i \in {j \in 1..Len(ss) :
                           ss[j].t = "object" /\ ~NonEmptyString(ss[j].title)}}
        \cup {Place("selectedSections", i - 1, "content") :
                 i \in {j \in 1..Len(ss) :
                           /\ ss[j].t = "object"
                           /\ \/ ~NonEmptyString(ss[j].content)
                              \/ Len(ss[j].content.s)
                                     > EnvOr(e.maxContent, DefaultMaxContentLength)}}
        \cup {Place("criteria", -1, "") : x \in
                 {1} \cap (IF body.criteria.t = "array" /\ cs # <<>>
                           THEN {} ELSE {1})}
        \cup {Place("criteria", i - 1, "") :
                 i \in {j \in 1..Len(cs) : cs[j].t # "object"}}
        \cup {Place("criteria", i - 1, "id") :
                 i \in {j \in 1..Len(cs) :
                           cs[j].t = "object" /\ ~NonEmptyString(cs[j].id)}}
        \cup {Place("criteria", i - 1, "name") :
                 i \in {j \in 1..Len(cs) :
                           cs[j].t = "object" /\ ~NonEmptyString(cs[j].name)}}
        \cup {Place("criteria", i - 1, "selected") :
                 i \in {j \in 1..Len(cs) :
                           /\ cs[j].t = "object"
                           /\ cs[j].selected.t \notin {"undefined", "true", "false"}}}

Names(error, place) ==
    /\ error.path = place.path
    /\ error.index = place.index
    /\ error.field = place.field

(***************************************************************************)
(* Claims about the evaluation endpoints (Spec).                           *)
(***************************************************************************)
AlignmentLevels == {Str(<<"HIGH">>), Str(<<"MEDIUM">>), Str(<<"LOW">>)}

ValidRequest == req.t = "object" /\ validateRequest(req, env).isValid

\* The criteria the evaluation loop was given.
InputCriteria == data.criteria.items

\* C1: for a valid request with N criteria the response carries exactly N
\* results and results[i].criterionId is the id of the i-th criterion given
\* to the loop; while the loop runs, the results are those of the first
\* criteria, in order.
C1_OneResultPerCriterionInOrder ==
    /\ Len(results) <= Len(InputCriteria)
    /\ \A i \in 1..Len(results) : results[i].criterionId = InputCriteria[i].id
    /\ response.status = 200 =>
           /\ response.results = results
           /\ Len(response.results) = Len(req.criteria.items)
    /\ (pc = "responded" /\ ValidRequest /\ (endpoint = "evaluate" \/ configured)) =>
           response.status = 200

\* A request with two criteria was answered on /evaluate: the first criterion
\* failed on every attempt, the second one succeeded.
C1_Witness ==
    /\ pc = "responded"
    /\ endpoint = "evaluate"
    /\ response.status = 200
    /\ Len(response.results) = 2
    /\ response.results[1].status = "error"
    /\ response.results[1].criterionId = Str(<<"a">>)
    /\ response.results[2].status = "completed"
    /\ response.results[2].criterionId = Str(<<"a", "a">>)

\* C2: a criterion that exhausts its retries never aborts the batch: a valid
\* request is never answered 500, every criterion the loop has left behind
\* has its result, and the response carries one result, completed or
\* error-shaped, per requested criterion.
C2_ExhaustionNeverAborts ==
    (ValidRequest /\ (endpoint = "evaluate" \/ (endpoint = "apiEvaluate" /\ configured))) =>
        /\ response.status \in {0, 200}
        /\ (pc \in {"next", "apiNext"} /\ idx >= 1) => Len(results) = idx
        /\ pc = "responded" =>
               /\ Len(response.results) = Len(req.criteria.items)
               /\ \A i \in 1..Len(response.results) :
                      /\ response.results[i].status \in {"completed", "error", "na"}
                      /\ response.results[i].alignment # Undef
                      /\ response.results[i].reasoning # Undef

\* Every LLM call of a request with two criteria failed, and the response
\* has its two error results.
C2_Witness ==
    /\ pc = "responded"
    /\ endpoint = "evaluate"
    /\ ValidRequest
    /\ llmCalls = 2 * (maxRetries + 1)
    /\ response.status = 200
    /\ Len(response.results) = 2
    /\ \A i \in 1..2 : response.results[i].status = "error"

\* C3: the alignment of every result is HIGH, MEDIUM or LOW, whatever the
\* model text was.
C3_AlignmentInLevels ==
    \A i \in 1..Len(results) : results[i].alignment \in AlignmentLevels

\* The criterion just evaluated on /evaluate, when its retry loop has ended.
CriterionDone == endpoint = "evaluate" /\ pc = "next" /\ idx >= 1

Failures(l) == {i \in 1..Len(l) : l[i] # "returned"}

C5_ExhaustionGivesErrorResult ==
    (CriterionDone /\ Len(log) = maxRetries + 1 /\ log[Len(log)] # "returned") =>
        /\ Failures(log) = 1..(maxRetries + 1)
        /\ results[idx].status = "error"
        /\ results[idx].alignment = Str(<<"MEDIUM">>)
        /\ \E j \in 1..Len(results[idx].reasoning.s) :
               results[idx].reasoning.s[j] = log[Len(log)]
        /\ results[idx].lastError = log[Len(log)]

\* Three calls failed with three different errors, the last one a 401.
C5_Witness ==
    /\ CriterionDone
    /\ log = <<"fetch failed", "Watsonx.ai API error: 500", "Watsonx.ai API error: 401">>
    /\ results[idx].status = "error"

\* C6: the pipeline fails closed: a request that violates a check of the
\* validator is answered 400 with the list of errors and no LLM call is made
\* for it; an LLM call is made only after validation succeeded.
C6_FailsClosed ==
    /\ (pc = "responded" /\ endpoint = "apiEvaluate" /\ ViolatedChecks(req, env) # {}) =>
           /\ response.status = 400
           /\ response.details # <<>>
           /\ llmCalls = 0
    /\ (endpoint = "apiEvaluate" /\ llmCalls > 0) => vres.isValid
    /\ ( /\ pc = "responded"
         /\ endpoint = "evaluate"
         /\ \/ ~Truthy(req.websiteUrl)
            \/ req.selectedSections.t = "undefined"
            \/ req.criteria.t = "undefined" ) =>
           /\ response.status = 400
           /\ llmCalls = 0

\* The part of C6 the code keeps: no LLM call is made for a request unless
\* validateRequest returned isValid = true for it, and a request for which it
\* returned isValid = false is answered 400 with the errors.
C6_NoCallWithoutValidation ==
    /\ (endpoint = "apiEvaluate" /\ llmCalls > 0) => (~vres.threw /\ vres.isValid)
    /\ (pc = "responded" /\ endpoint = "apiEvaluate" /\ ~vres.threw /\ ~vres.isValid) =>
           /\ response.status = 400
           /\ response.details = vres.errors
           /\ llmCalls = 0

\* The calls of the LLM client made so far for the criterion in progress.
CallsInProgress ==
    IF pc \in {"attempt", "backoff"} THEN Len(log)
    ELSE IF pc \in {"calling", "apiCalling"} THEN Len(log) + 1 ELSE 0

RECURSIVE AttemptsOf(_)
AttemptsOf(rs) == IF rs = <<>> THEN 0 ELSE Head(rs).attempts + AttemptsOf(Tail(rs))

\* C13: the criteria are evaluated one after another: while criterion idx is
\* being evaluated (attempting, calling or waiting) every criterion before
\* it has its result and no later one has started, and every LLM call made
\* so far belongs to a criterion that has its result or to the one in
\* progress.
C13_OneCriterionAtATime ==
    /\ pc \in {"attempt", "calling", "backoff", "apiCalling"} =>
           idx >= 1 /\ Len(results) = idx - 1
    /\ pc \in {"next", "apiNext", "apiDelay"} => Len(results) = idx
    /\ (endpoint = "evaluate" /\ pc # "responded"
            /\ ~PromptThrows(data.selectedSections.items)) =>
           llmCalls = AttemptsOf(results) + CallsInProgress
    /\ (endpoint = "apiEvaluate" /\ pc # "responded") =>
           llmCalls = Len(results) + CallsInProgress

\* The second criterion is calling the LLM after the first one went through
\* all its attempts and both its backoff waits.
C13_Witness ==
    /\ endpoint = "evaluate"
    /\ pc = "calling"
    /\ idx = 2
    /\ Len(results) = 1
    /\ results[1].status = "error"
    /\ llmCalls = maxRetries + 2

\* C14: the first LLM call of every criterion but the first comes after a
\* wait of InterCriterionDelay that follows the criterion before it, and no
\* such wait follows the last criterion.
C14_DelayBetweenCriteria ==
    /\ (pc \in {"calling", "apiCalling"} /\ idx >= 2 /\ log = <<>>) =>
           \E k \in 1..Len(delays) :
               delays[k] = Wait("criterion", InterCriterionDelay, idx - 1)
    /\ \A k \in 1..Len(delays) :
           delays[k].kind = "criterion" => delays[k].after < Len(data.criteria.items)

\* The part of C14 the code keeps: evaluateWebsiteWithLLM waits between the
\* criteria, whether the earlier one got a text or its fallback evaluation.
C14_DelayBetweenCriteriaOfWatsonxService ==
    endpoint = "apiEvaluate" => C14_DelayBetweenCriteria

BackoffsOf(i) ==
    LET OfCriterion(d) == d.kind = "backoff" /\ d.after = i
    IN  SelectSeq(delays, OfCriterion)

\* C15 as claimed: the wait after a failed attempt is two to the number of
\* calls already made for the criterion, in seconds.
C15_BackoffOfCallsMade ==
    (endpoint = "evaluate" /\ pc = "backoff") =>
        delays[Len(delays)].ms = (2 ^ Len(log)) * 1000

\* C15 amended: the wait after the k-th failed attempt of a criterion is
\* 2^(k-1) seconds (1 s, then 2 s), for k <= maxRetries; no wait follows the
\* failure of attempt maxRetries + 1, after which the error result is made.
C15_BackoffDoublesFromOneSecond ==
    endpoint = "evaluate" =>
        /\ \A i \in 1..idx :
               /\ Len(BackoffsOf(i)) <= maxRetries
               /\ \A k \in 1..Len(BackoffsOf(i)) :
                      BackoffsOf(i)[k].ms = (2 ^ (k - 1)) * 1000
        /\ pc = "backoff" =>
               /\ Len(BackoffsOf(idx)) = Len(log)
               /\ delays[Len(delays)] = Wait("backoff", (2 ^ (Len(log) - 1)) * 1000, idx)
        /\ (CriterionDone /\ results[idx].status = "error") =>
               /\ Len(log) = maxRetries + 1
               /\ Len(BackoffsOf(idx)) = maxRetries
        /\ (CriterionDone /\ results[idx].status = "completed") =>
               Len(BackoffsOf(idx)) = Len(log) - 1

\* The second failed call of a criterion is followed by its second wait.
C15_Witness ==
    /\ endpoint = "evaluate"
    /\ pc = "backoff"
    /\ log = <<"fetch failed", "Watsonx.ai API error: 500">>
    /\ BackoffsOf(idx) = <<Wait("backoff", 1000, idx), Wait("backoff", 2000, idx)>>

\* C16: a call of the LLM client sends at most one request to the model
\* endpoint, so a criterion has had no more requests than attempts, and as
\* many requests as attempts when its evaluation ends.
C16_OneRequestPerCall ==
    endpoint # "none" =>
        /\ fetches <= Len(log)
        /\ ( /\ CriterionDone
             /\ configured
             /\ ~PromptThrows(data.selectedSections.items) ) =>
               fetches = results[idx].attempts

\* The part of C16 the code keeps: WatsonxService.callWatsonxAPI sends one
\* request per call.
C16_OneRequestPerCallOfWatsonxService ==
    endpoint = "apiEvaluate" => fetches <= Len(log)

\* The score the summary gives to a level.
LevelScore(alignment) ==
    CASE alignment = Str(<<"HIGH">>) -> 3
      [] alignment = Str(<<"MEDIUM">>) -> 2
      [] alignment = Str(<<"LOW">>) -> 1

RECURSIVE LevelScores(_)
LevelScores(rs) ==
    IF rs = <<>> THEN 0 ELSE LevelScore(Head(rs).alignment) + LevelScores(Tail(rs))

AverageOf(avg, rs) ==
    /\ ~avg.nan
    /\ avg.count = Len(rs)
    /\ avg.count <= avg.sum
    /\ avg.sum <= 3 * avg.count
    /\ (\A i \in 1..Len(rs) : rs[i].alignment \in AlignmentLevels) =>
           avg.sum = LevelScores(rs)
    /\ (\A i \in 1..Len(rs) : rs[i].alignment = Str(<<"HIGH">>)) =>
           avg.sum = 3 * avg.count

\* C17: averageAlignment is the sum of the scores of the results' alignments
\* divided by the number of results, a number from 1 to 3, and 3 when every
\* result is HIGH.
C17_AverageAlignment ==
    (endpoint = "evaluate" /\ response.status = 200) =>
        AverageOf(response.evaluationSummary.averageAlignment, response.results)

\* The part of C17 the code keeps: the same for a response with at least one
\* result.
C17_AverageAlignmentOfSomeResults ==
    (endpoint = "evaluate" /\ response.status = 200 /\ response.results # <<>>) =>
        AverageOf(response.evaluationSummary.averageAlignment, response.results)

\* C18: in the summary, completedEvaluations + failedEvaluations =
\* totalCriteria = number of results, totalAttempts is the sum of the
\* results' attempts, successfulOnRetry counts the completed results with
\* attempts > 1, and failedAfterRetries counts the error results.
C18_SummaryCounts ==
    (endpoint = "evaluate" /\ response.status = 200) =>
        LET summary == response.evaluationSummary
            rs == response.results
        IN  /\ summary.completedEvaluations + summary.failedEvaluations
                   = summary.totalCriteria
            /\ summary.totalCriteria = Len(rs)
            /\ summary.retryStats.totalAttempts = AttemptsOf(rs)
            /\ summary.retryStats.successfulOnRetry =
                   Cardinality({i \in 1..Len(rs) :
                                    rs[i].status = "completed" /\ rs[i].attempts > 1})
            /\ summary.retryStats.failedAfterRetries =
                   Cardinality({i \in 1..Len(rs) : rs[i].status = "error"})
            /\ summary.retryStats.failedAfterRetries = summary.failedEvaluations

\* A response with an error result and a result completed on its second
\* attempt: five attempts in all.
C18_Witness ==
    /\ endpoint = "evaluate"
    /\ response.status = 200
    /\ Len(response.results) = 2
    /\ response.results[1].status = "error"
    /\ response.results[2].status = "completed"
    /\ response.results[2].attempts = 2
    /\ response.evaluationSummary.retryStats.totalAttempts = 5

\* C19: once the client has cancelled, no further criterion is started: the
\* loop stays at the criterion it was at when the signal was given.
C19_NoCriterionStartsAfterCancel ==
    abort.aborted => idx <= abort.criterion

\* C20: an attempt on which the LLM client returned a text is never caught
\* as a failure: the log of a criterion holds no failure of the response
\* parsing.
C20_TextAlwaysCompletes ==
    \A i \in 1..Len(log) : log[i] # "TypeError: parsedResponse is null"

\* C21: every result has the status "completed" or "error": "completed"
\* when a call of the criterion returned a text, "error" when every permitted
\* attempt failed.
C21_TerminalStatus ==
    /\ \A i \in 1..Len(results) : results[i].status \in {"completed", "error"}
    /\ (CriterionDone /\ log # <<>>) =>
           /\ results[idx].status = "completed" <=> log[Len(log)] = "returned"
           /\ results[idx].status = "error" <=>
                  Failures(log) = 1..(maxRetries + 1)

\* The part of C21 the code keeps: the results of /evaluate are completed or
\* error results; those of /api/evaluate all carry the status "na".
C21_TerminalStatusOfEvaluate ==
    /\ endpoint = "evaluate" => C21_TerminalStatus
    /\ endpoint = "apiEvaluate" =>
           \A i \in 1..Len(results) : results[i].status = "na"

\* C22: without the LLM configuration no request is processed into LLM
\* attempts, backoff waits or results.
C22_NoRequestWithoutConfiguration ==
    ~configured => (llmCalls = 0 /\ delays = <<>> /\ results = <<>>)

\* The part of C22 the code keeps: without the configuration no request is
\* sent to the model endpoint, and /api/evaluate answers a valid request 500
\* before its loop.
C22_NoFetchWithoutConfiguration ==
    ~configured =>
        /\ fetches = 0
        /\ endpoint = "apiEvaluate" => (llmCalls = 0 /\ results = <<>>)

C7_CollectsAllViolations ==
    (pc = "validated" /\ req.t = "object") =>
        /\ ~vres.threw
        /\ \A place \in ViolatedChecks(req, env) :
               \E i \in 1..Len(vres.errors) : Names(vres.errors[i], place)

\* The part of C7 the code keeps: whenever validateRequest returns, the list
\* it returns names every violated check.
C7_CollectsAllWhenItReturns ==
    (pc = "validated" /\ req.t = "object" /\ ~vres.threw) =>
        \A place \in ViolatedChecks(req, env) :
            \E i \in 1..Len(vres.errors) : Names(vres.errors[i], place)

\* C8: with selectedSections = [] validateRequest returns isValid = false and
\* an error that mentions selectedSections; with a single section whose
\* content is longer than the configured maximum it returns isValid = false
\* and an error that names index 0 of selectedSections.
C8_EmptyAndOverlongSections ==
    (pc = "validated" /\ req.t = "object") =>
        /\ req.selectedSections = Arr(<<>>) =>
               /\ ~vres.threw
               /\ ~vres.isValid
               /\ \E i \in 1..Len(vres.errors) :
                      vres.errors[i].path = "selectedSections"
        /\ ( /\ req.selectedSections.t = "array"
             /\ Len(req.selectedSections.items) = 1
             /\ req.selectedSections.items[1].t = "object"
             /\ IsString(req.selectedSections.items[1].content)
             /\ Len(req.selectedSections.items[1].content.s)
                    > EnvOr(env.maxContent, DefaultMaxContentLength) ) =>
               /\ ~vres.threw
               /\ ~vres.isValid
               /\ \E i \in 1..Len(vres.errors) :
                      /\ vres.errors[i].path = "selectedSections"
                      /\ vres.errors[i].index = 0
                      /\ vres.errors[i].field = "content"
                      /\ vres.errors[i].kind = "length"

\* A body with one section, longer than the configured maximum and otherwise
\* valid, has been validated.
C8_Witness ==
    /\ pc = "validated"
    /\ req.t = "object"
    /\ req.selectedSections
           = Arr(<<Section(Str(<<"a">>), Str(<<"a">>), Str(<<"a", "a", "a">>))>>)
    /\ env.maxContent = 2
    /\ ~vres.isValid

\* C9: sanitizeInput is idempotent: whenever sanitizeInput(p) returns a
\* payload, sanitizing that payload again returns the identical payload
\* (websiteUrl, every section's and every criterion's fields).
C9_SanitizeIdempotent ==
    (pc = "resanitized" /\ san1.t # "thrown") => san2 = san1

\* A body whose strings carry surrounding spaces has been sanitized twice,
\* and the first pass changed it.
C9_Witness ==
    /\ pc = "resanitized"
    /\ san1.t = "object"
    /\ san1 # req
    /\ san1.selectedSections.t = "array"
    /\ \E i \in 1..Len(san1.selectedSections.items) :
           /\ req.selectedSections.items[i].selector = Str(<<" ", " ", "a", " ">>)
           /\ san1.selectedSections.items[i].selector = Str(<<"a">>)
    /\ san2.t = "object"


\* C26: validateRequest is total: on every payload it returns its record
\* and raises nothing, and isValid is true exactly when errors is empty.
C26_ValidateRequestIsTotal ==
    pc = "validated" =>
        /\ ~vres.threw
        /\ vres.isValid <=> vres.errors = <<>>

\* The part of C26 the code keeps: when validateRequest returns, isValid is
\* true exactly when errors is empty, and it returns for every payload
\* whose sections are objects with a string or a number as content.
C26_ValidWhenNoErrors ==
    pc = "validated" =>
        /\ ~vres.threw => (vres.isValid <=> vres.errors = <<>>)
        /\ ( /\ req.t = "object"
             /\ \A i \in 1..Len(req.selectedSections.items) :
                    /\ req.selectedSections.items[i].t = "object"
                    /\ ~ReadThrows(req.selectedSections.items[i].content) ) =>
               ~vres.threw

\* C27: a payload that validateRequest accepts is still accepted after
\* sanitizeInput.
C27_SanitizedStillValid ==
    (pc = "sanitized" /\ ~vres.threw /\ vres.isValid) =>
        /\ san1.t = "object"
        /\ validateRequest(san1, env).isValid

\* The part of C27 the code keeps: sanitizeInput returns for every accepted
\* payload, and the sanitized payload is accepted when no required string of
\* the payload is made of spaces only.
C27_SanitizedStillValidWithoutBlankStrings ==
    ( /\ pc = "sanitized"
      /\ ~vres.threw
      /\ vres.isValid
      /\ \A i \in 1..Len(req.selectedSections.items) :
             LET section == req.selectedSections.items[i]
             IN  /\ Trim(section.selector.s) # <<>>
                 /\ Trim(section.title.s) # <<>>
                 /\ Trim(section.content.s) # <<>>
      /\ \A i \in 1..Len(req.criteria.items) :
             LET criterion == req.criteria.items[i]
             IN  Trim(criterion.id.s) # <<>> /\ Trim(criterion.name.s) # <<>> ) =>
        /\ san1.t = "object"
        /\ validateRequest(san1, env).isValid


(***************************************************************************)
(* Claims about the response parsers (SpecNormalize).                      *)
(***************************************************************************)

\* llmText is exactly a JSON object of three members: an alignment of the
\* three levels, a reasoning string and a keyInsights list, in any order.
WellFormedResponse(text) ==
    /\ Len(text) = 5
    /\ text[1] = "{"
    /\ text[5] = "}"
    /\ \A name \in {"alignment", "reasoning", "keyInsights"} :
           \E i \in 2..4 : MemberName(text[i]) = name
    /\ \E i \in 2..4 :
           MemberName(text[i]) = "alignment" /\ MemberValue(text[i]) \in AlignmentLevels

\* The value the text itself gives to a member.
Given(text, name) ==
    MemberValue(text[CHOOSE i \in 2..4 : MemberName(text[i]) = name])

RoundTrips(norm, text) ==
    /\ norm.t = "returned"
    /\ norm.val.alignment = Given(text, "alignment")
    /\ norm.val.reasoning = Given(text, "reasoning")
    /\ "keyInsights" \in DOMAIN norm.val
    /\ norm.val.keyInsights = Given(text, "keyInsights")
    /\ DOMAIN norm.val = {"alignment", "reasoning", "keyInsights"}

NoBraces(text) == \A i \in 1..Len(text) : text[i] \notin {"{", "}"}

\* The text carries "ALIGNMENT: LOW" and, as its first reasoning marker,
\* "REASONING: too vague".
NamesLowAndTooVague(text) ==
    /\ \E i \in 1..(Len(text) - 1) : text[i] = "ALIGNMENT:" /\ text[i + 1] = "LOW"
    /\ \E j \in 1..(Len(text) - 1) :
           /\ text[j] = "REASONING:"
           /\ text[j + 1] = "too vague"
           /\ \A k \in 1..(j - 1) : text[k] # "REASONING:"

Contains(str, word) == \E i \in 1..Len(str.s) : str.s[i] = word

\* C11: a text without JSON braces that carries an alignment marker and a
\* reasoning marker is normalized, by both parsers, to the alignment it
\* names and to a reasoning that contains the text after the reasoning
\* marker.
C11_FallbackParsing ==
    (pc = "parsed" /\ NoBraces(llmText) /\ NamesLowAndTooVague(llmText)) =>
        /\ normB.t = "returned"
        /\ normB.val.alignment = Str(<<"LOW">>)
        /\ Contains(normB.val.reasoning, "too vague")
        /\ normA.val.alignment = Str(<<"LOW">>)
        /\ Contains(normA.val.reasoning, "too vague")

\* The part of C11 the code keeps: WatsonxService.fallbackResponseParsing
\* returns the alignment and the reasoning of such a text, and the response
\* parsing of /evaluate keeps the text as the reasoning.
C11_FallbackParsingOfWatsonxService ==
    (pc = "parsed" /\ NoBraces(llmText) /\ NamesLowAndTooVague(llmText)) =>
        /\ normA.val.alignment = Str(<<"LOW">>)
        /\ Contains(normA.val.reasoning, "too vague")
        /\ normB.t = "returned"
        /\ Contains(normB.val.reasoning, "too vague")

\* No token of the text gives an alignment: no alignment member and none of
\* the three levels as a word.
NoAlignmentToken(text) ==
    \A i \in 1..Len(text) :
        /\ MemberName(text[i]) # "alignment"
        /\ UpperWord(text[i]) \notin {"HIGH", "MEDIUM", "LOW", "LOWER"}

\* C12: a text without any alignment token is normalized, by both parsers,
\* to the alignment MEDIUM, and the parsing does not fail.
C12_DefaultsToMedium ==
    (pc = "parsed" /\ NoAlignmentToken(llmText)) =>
        /\ normB.t = "returned"
        /\ normB.val.alignment = Str(<<"MEDIUM">>)
        /\ normA.t = "returned"
        /\ normA.val.alignment = Str(<<"MEDIUM">>)

\* The part of C12 the code keeps: WatsonxService.parseLLMResponse gives
\* MEDIUM to such a text; the response parsing of /evaluate gives HIGH, or
\* throws when the text is the JSON null.
C12_WatsonxServiceDefaultsToMedium ==
    (pc = "parsed" /\ NoAlignmentToken(llmText)) =>
        /\ normA.t = "returned"
        /\ normA.val.alignment = Str(<<"MEDIUM">>)
        /\ normB.t = "returned" => normB.val.alignment = Str(<<"HIGH">>)

(***************************************************************************)
(* Claims about the client (SpecClient, SpecBatch, SpecCriteria).          *)
(***************************************************************************)
\* C23: a run that succeeds for a website leaves in the store, for that
\* website, one evaluation per returned result, all of them of this run, and
\* leaves the record of every other website as it was.
C23_RunReplacesEvaluations ==
    [][ (evaluator.isEvaluating /\ ~evaluator'.isEvaluating /\ evaluator'.said = "") =>
          \E apiResults \in ApiResults :
              /\ now' > now
              /\ Len(websites') = Len(websites)
              /\ \A k \in 1..Len(websites) :
                     IF websites[k].id = evaluator.website.id
                     THEN /\ websites'[k].id = websites[k].id
                          /\ websites'[k].lastEvaluated = now'
                          /\ Len(websites'[k].evaluations) = Len(apiResults)
                          /\ \A j \in 1..Len(apiResults) :
                                 LET stored == websites'[k].evaluations[j]
                                 IN  /\ stored.criterionId = apiResults[j].criterionId
                                     /\ stored.evaluatedAt = now'
                                     /\ Truthy(apiResults[j].alignment) =>
                                            stored.alignment = apiResults[j].alignment
                     ELSE websites'[k] = websites[k] ]_vars

\* Of two stored websites the first was evaluated twice and holds the one
\* result of its second run; the second was never evaluated.
C23_Witness ==
    /\ ids = 2
    /\ now = 2
    /\ Len(websites) = 2
    /\ websites[1].lastEvaluated = 2
    /\ Len(websites[1].evaluations) = 1
    /\ websites[1].evaluations[1].evaluatedAt = 2
    /\ websites[2].lastEvaluated = 0
    /\ websites[2].evaluations = <<>>

\* C24: every stored evaluation has an alignment of HIGH, MEDIUM or LOW.
C24_StoredAlignmentLevels ==
    \A k \in 1..Len(websites) :
        \A j \in 1..Len(websites[k].evaluations) :
            websites[k].evaluations[j].alignment \in AlignmentLevels

\* The part of C24 the code keeps: a stored alignment is never missing or
\* empty.
C24_StoredAlignmentNotEmpty ==
    \A k \in 1..Len(websites) :
        \A j \in 1..Len(websites[k].evaluations) :
            /\ IsString(websites[k].evaluations[j].alignment)
            /\ websites[k].evaluations[j].alignment.s # <<>>

UniqueIds(list) ==
    \A i, j \in 1..Len(list) : list[i].id = list[j].id => i = j

\* C25: no two criteria of the stored list share an id.
C25_UniqueCriterionIds == UniqueIds(storedCriteria)

\* The part of C25 the code keeps: adding, editing and removing a criterion
\* keep the ids of a list unique.
C25_UniqueUnlessImported ==
    [][ ((onSaveNewCriterion \/ onSaveEditCriterion \/ onRemove)
            /\ UniqueIds(storedCriteria)) => UniqueIds(storedCriteria') ]_vars

\* C29: a run that is cancelled or fails leaves the stored websites as they
\* were and the evaluator not evaluating, without an abort controller; after
\* abort() the run ends as a cancelled one.
C29_FailedRunChangesNothing ==
    [][ /\ ( /\ evaluator.isEvaluating
             /\ ~evaluator'.isEvaluating
             /\ evaluator'.said \in {"cancelled", "failed"} ) =>
               /\ websites' = websites
               /\ evaluator'.evaluationAbortController = "null"
        /\ ( /\ evaluator.evaluationAbortController = "aborted"
             /\ evaluator' # evaluator ) =>
               /\ websites' = websites
               /\ ~evaluator'.isEvaluating
               /\ evaluator'.said = "cancelled" ]_vars

\* A second run of a website was cancelled: the evaluator is at rest in the
\* evaluator view and the store holds the evaluations of the first run.
C29_Witness ==
    /\ selectedWebsite # Null
    /\ ~evaluator.isEvaluating
    /\ evaluator.said = "cancelled"
    /\ evaluator.evaluationAbortController = "null"
    /\ now = 1
    /\ \E k \in 1..Len(websites) :
           /\ websites[k].id = evaluator.website.id
           /\ websites[k].lastEvaluated = 1
           /\ websites[k].evaluations # <<>>

\* C30: a batch attempts the websites of its list in order, one at a time;
\* a website that failed is not passed to onWebsiteUpdated; the batch never
\* ends with the status 'error', and when it has ended every website was
\* attempted once, completed counts the updated websites and isRunning is
\* false.
C30_BatchSurvivesFailures ==
    /\ batch.status # "error"
    /\ batch.isRunning <=> batch.status = "running"
    /\ batch.status \in {"running", "completed"} =>
           LET done == IF batch.isRunning THEN batch.i - 1 ELSE Len(batch.list)
           IN  /\ batch.i \in 1..Len(batch.list)
               /\ batch.processing =
                      [k \in 1..(IF batch.isRunning THEN batch.i ELSE Len(batch.list)) |->
                          batch.list[k].id]
               /\ Len(batch.failed) + Len(batch.updated) = done
               /\ \A k \in 1..done :
                      (\E f \in 1..Len(batch.failed) : batch.failed[f] = batch.list[k].id)
                          # (\E u \in 1..Len(batch.updated) :
                                 batch.updated[u].id = batch.list[k].id)
               /\ batch.completed = Len(batch.updated)
               /\ batch.completed <= batch.total
               /\ batch.total = Len(batch.list)
    /\ batch.isRunning => ENABLED (EvaluateWebsiteReturns \/ EvaluateWebsiteThrows)

\* A batch of two websites has ended: the first failed, the second was
\* evaluated and passed on.
C30_Witness ==
    /\ batch.status = "completed"
    /\ ~batch.isRunning
    /\ Len(batch.list) = 2
    /\ batch.failed = <<batch.list[1].id>>
    /\ Len(batch.updated) = 1
    /\ batch.updated[1].id = batch.list[2].id
    /\ batch.completed = 1

====
